---- MODULE Spec2Model ----
(***************************************************************************)
(* Model of the Friendly client SDK (package api under internal/api and    *)
(* its twin package friendly): the domain value types and their            *)
(* validating constructors, the request executor Client.do, and the        *)
(* endpoint operations built on it.                                        *)
(*                                                                         *)
(* A caller invokes one SDK function at a time.  Each action below is one  *)
(* whole Go function call: it draws the arguments and the transport's      *)
(* answer from small sets, and records the requests handed to              *)
(* http.Client.Do during the call and the values the function returns.     *)
(***************************************************************************)
EXTENDS Integers, Sequences, FiniteSets, TLC

VARIABLES
    client,   \* the *Client the caller holds: [url, http]
    op,       \* name of the SDK function of the last call ("none" at start)
    args,     \* its arguments
    net,      \* what the transport answered during the call
    sent,     \* the requests handed to http.Client.Do during the call
    result,   \* the first return value (absent for error-only functions)
    err,      \* the returned error
    threads,  \* goroutines calling the one client at the same time
    model,    \* the terminal UI's model struct
    msg,      \* the key message Update handled last, and the command it returned
    calls     \* the SDK calls Update made while handling it

vars == <<client, op, args, net, sent, result, err, threads, model, msg, calls>>

\* What the sequential caller of the SDK does not touch.
others == <<threads, model, msg, calls>>

(***************************************************************************)
(* Go strings.  A string is a sequence of pieces; a piece is either a run  *)
(* of ASCII text (one byte per character) or one non-ASCII character,      *)
(* which UTF-8 encodes in several bytes.  The builtin len counts BYTES.    *)
(***************************************************************************)
EAcute == "U+00E9"

\* The replacement character, three bytes in UTF-8.
Replacement == "U+FFFD"

\* A byte that is not valid UTF-8 where it stands.
InvalidByte == "0xFF"

WideChars == {EAcute, Replacement}

PieceBytes(p) ==
    CASE p = EAcute -> 2
      [] p = Replacement -> 3
      [] p = InvalidByte -> 1
      [] OTHER -> Len(p)

PieceChars(p) == IF p \in WideChars \cup {InvalidByte} THEN 1 ELSE Len(p)

RECURSIVE SumBytes(_, _, _)
SumBytes(s, lo, hi) ==
    IF lo > hi THEN 0
    ELSE IF lo = hi THEN PieceBytes(s[lo])
    ELSE LET mid == (lo + hi) \div 2
         IN  SumBytes(s, lo, mid) + SumBytes(s, mid + 1, hi)

RECURSIVE SumChars(_, _, _)
SumChars(s, lo, hi) ==
    IF lo > hi THEN 0
    ELSE IF lo = hi THEN PieceChars(s[lo])
    ELSE LET mid == (lo + hi) \div 2
         IN  SumChars(s, lo, mid) + SumChars(s, mid + 1, hi)

\* len(s) for a Go string s: the number of bytes.
GoLen(s) == SumBytes(s, 1, Len(s))

\* The number of characters (code points) of s; the code never computes it.
CharCount(s) == SumChars(s, 1, Len(s))

EmptyString == <<>>

Rep(p, n) == [i \in 1..n |-> p]

Digit(d) == <<"0", "1", "2", "3", "4", "5", "6", "7", "8", "9">>[d + 1]

RECURSIVE Digits(_)
Digits(n) == IF n < 10 THEN <<Digit(n)>> ELSE Digits(n \div 10) \o <<Digit(n % 10)>>

\* fmt.Sprintf("%d", n)
FormatInt(n) == IF n < 0 THEN <<"-">> \o Digits(0 - n) ELSE Digits(n)

(***************************************************************************)
(* JSON documents.  Every value has the same shape so that any two can be  *)
(* compared: k is the member name when the value is a member of an object, *)
(* t the kind, s the text of a string, n the number, items the elements of *)
(* an array or the members of an object.  A body that is no JSON at all    *)
(* has t = "text"; a zero-length body has t = "empty".                     *)
(***************************************************************************)
JLeaf(t, s, n) == [k |-> "", t |-> t, s |-> s, n |-> n, items |-> <<>>]

JAbsent == JLeaf("absent", <<>>, 0)

JNull == JLeaf("null", <<>>, 0)

JStr(s) == JLeaf("str", s, 0)

JNum(n) == JLeaf("num", <<>>, n)

JBool(b) == JLeaf(IF b THEN "true" ELSE "false", <<>>, 0)

JArr(items) == [k |-> "", t |-> "arr", s |-> <<>>, n |-> 0, items |-> items]

JObj(members) == [k |-> "", t |-> "obj", s |-> <<>>, n |-> 0, items |-> members]

Member(key, v) == [v EXCEPT !.k = key]

EmptyBody == JLeaf("empty", <<>>, 0)

TextBody(s) == JLeaf("text", s, 0)

\* No body at all: a request sent without one, an error that carries none.
NoBody == JLeaf("none", <<>>, 0)

\* The member of object j that the decoder binds to the field tagged key
\* (the last one when the name is repeated), JAbsent when there is none.
Field(j, key) ==
    LET idx == {i \in DOMAIN j.items : j.items[i].k = key}
    IN  IF idx = {} THEN JAbsent
        ELSE j.items[CHOOSE i \in idx : \A m \in idx : m <= i]

(***************************************************************************)
(* Errors.  A Go error built by fmt.Errorf is kept as its format strings   *)
(* (outermost first when %w wraps another error), the %d argument and the  *)
(* body text passed to %s.                                                 *)
(***************************************************************************)
NilErr == [nil |-> TRUE, text |-> <<>>, num |-> 0, body |-> NoBody]

Errorf(format, num, body) ==
    [nil |-> FALSE, text |-> <<format>>, num |-> num, body |-> body]

Wrap(format, e) == [e EXCEPT !.text = <<format>> \o @]

(***************************************************************************)
(* Domain value types and their constructors.                              *)
(***************************************************************************)
NicknameMax == 256

DescriptionMax == 1024

InterestMax == 64

HashSize == 256

NewNickname(s) ==
    IF GoLen(s) > NicknameMax
    THEN [v |-> EmptyString, err |-> Errorf("nickname too long: %d > 256", GoLen(s), NoBody)]
    ELSE [v |-> s, err |-> NilErr]

NewUserDescription(s) ==
    IF GoLen(s) > DescriptionMax
    THEN [v |-> EmptyString, err |-> Errorf("description too long: %d > 1024", GoLen(s), NoBody)]
    ELSE [v |-> s, err |-> NilErr]

NewInterest(s) ==
    IF GoLen(s) > InterestMax
    THEN [v |-> EmptyString, err |-> Errorf("interest too long: %d > 64", GoLen(s), NoBody)]
    ELSE [v |-> s, err |-> NilErr]

NewToken(s) ==
    IF GoLen(s) # HashSize
    THEN [v |-> EmptyString, err |-> Errorf("token must be 256 characters, got %d", GoLen(s), NoBody)]
    ELSE [v |-> s, err |-> NilErr]

NewUserAccessHash(s) ==
    IF GoLen(s) # HashSize
    THEN [v |-> EmptyString, err |-> Errorf("access hash must be 256 characters, got %d", GoLen(s), NoBody)]
    ELSE [v |-> s, err |-> NilErr]

NewFileAccessHash(s) ==
    IF GoLen(s) # HashSize
    THEN [v |-> EmptyString, err |-> Errorf("file access hash must be 256 characters, got %d", GoLen(s), NoBody)]
    ELSE [v |-> s, err |-> NilErr]

NewFriendToken(s) ==
    IF GoLen(s) # HashSize
    THEN [v |-> EmptyString, err |-> Errorf("friend token must be 256 characters, got %d", GoLen(s), NoBody)]
    ELSE [v |-> s, err |-> NilErr]

(***************************************************************************)
(* Pointers and slices.  A nil pointer or nil slice keeps the zero value   *)
(* of its element type so that every value of a type has one shape.        *)
(***************************************************************************)
Ptr(v) == [nil |-> FALSE, v |-> v]

NilPtr(zero) == [nil |-> TRUE, v |-> zero]

Slice(elems) == [nil |-> FALSE, v |-> elems]

NilSlice == [nil |-> TRUE, v |-> <<>>]

ZeroFileDescriptor == [Id |-> 0, AccessHash |-> EmptyString]

ZeroAuthorization == [Id |-> 0, AccessHash |-> EmptyString, Token |-> EmptyString]

ZeroUserDetails ==
    [Id |-> 0, AccessHash |-> EmptyString, Nickname |-> EmptyString,
     Description |-> EmptyString, Interests |-> NilSlice,
     Avatar |-> NilPtr(ZeroFileDescriptor)]

ZeroNetworkDetails == [Friends |-> NilSlice]

ZeroFeedQueue == [Entries |-> NilSlice]

NilAuth == NilPtr(ZeroAuthorization)

(***************************************************************************)
(* encoding/json, decoding.  Each decoder returns [ok, v]: ok is FALSE     *)
(* when the JSON value cannot be stored in the Go type.  A missing member  *)
(* and a JSON null both leave the zero value.  No decoder looks at the     *)
(* length of a string.                                                     *)
(***************************************************************************)
DecodeString(j) ==
    CASE j.t \in {"absent", "null"} -> [ok |-> TRUE, v |-> EmptyString]
      [] j.t = "str" -> [ok |-> TRUE, v |-> j.s]
      [] OTHER -> [ok |-> FALSE, v |-> EmptyString]

DecodeInt64(j) ==
    CASE j.t \in {"absent", "null"} -> [ok |-> TRUE, v |-> 0]
      [] j.t = "num" -> [ok |-> TRUE, v |-> j.n]
      [] OTHER -> [ok |-> FALSE, v |-> 0]

DecodeBool(j) ==
    CASE j.t \in {"absent", "null", "false"} -> [ok |-> TRUE, v |-> FALSE]
      [] j.t = "true" -> [ok |-> TRUE, v |-> TRUE]
      [] OTHER -> [ok |-> FALSE, v |-> FALSE]

\* A struct is filled from an object; null leaves it zero; anything else fails.
StructKind(j) == j.t \in {"absent", "null", "obj"}

\* A struct decoded from an object: fields holds what each member decoded
\* to.  The struct is stored when every member could be.
DecodeStruct(fields) ==
    [ok |-> \A k \in DOMAIN fields : fields[k].ok,
     v |-> [k \in DOMAIN fields |-> fields[k].v]]

\* A slice decoded from an array: each holds what each element decoded to.
DecodeSlice(each) ==
    [ok |-> \A i \in DOMAIN each : each[i].ok,
     v |-> Slice([i \in DOMAIN each |-> each[i].v])]

\* A pointer field set from an object: a new value is allocated and filled.
DecodePtr(d) == [ok |-> d.ok, v |-> Ptr(d.v)]

DecodeFileDescriptor(j) ==
    IF j.t = "obj"
    THEN DecodeStruct([Id |-> DecodeInt64(Field(j, "id")),
                       AccessHash |-> DecodeString(Field(j, "accessHash"))])
    ELSE [ok |-> StructKind(j), v |-> ZeroFileDescriptor]

\* Avatar *FileDescriptor
DecodeFileDescriptorPtr(j) ==
    IF j.t = "obj" THEN DecodePtr(DecodeFileDescriptor(j))
    ELSE [ok |-> StructKind(j), v |-> NilPtr(ZeroFileDescriptor)]

\* Interests []Interest
DecodeInterests(j) ==
    IF j.t = "arr" THEN DecodeSlice([i \in DOMAIN j.items |-> DecodeString(j.items[i])])
    ELSE [ok |-> j.t \in {"absent", "null"}, v |-> NilSlice]

DecodeUserDetails(j) ==
    IF j.t = "obj"
    THEN DecodeStruct([Id |-> DecodeInt64(Field(j, "id")),
                       AccessHash |-> DecodeString(Field(j, "accessHash")),
                       Nickname |-> DecodeString(Field(j, "nickname")),
                       Description |-> DecodeString(Field(j, "description")),
                       Interests |-> DecodeInterests(Field(j, "interests")),
                       Avatar |-> DecodeFileDescriptorPtr(Field(j, "avatar"))])
    ELSE [ok |-> StructKind(j), v |-> ZeroUserDetails]

\* []UserDetails
DecodeUserDetailsList(j) ==
    IF j.t = "arr"
    THEN DecodeSlice([i \in DOMAIN j.items |-> DecodeUserDetails(j.items[i])])
    ELSE [ok |-> j.t \in {"absent", "null"}, v |-> NilSlice]

DecodeNetworkDetails(j) ==
    IF j.t = "obj"
    THEN DecodeStruct([Friends |-> DecodeUserDetailsList(Field(j, "friends"))])
    ELSE [ok |-> StructKind(j), v |-> ZeroNetworkDetails]

ZeroFeedEntry ==
    [IsExtendedNetwork |-> FALSE, CommonFriends |-> NilSlice, Details |-> ZeroUserDetails]

DecodeFeedEntry(j) ==
    IF j.t = "obj"
    THEN DecodeStruct([IsExtendedNetwork |-> DecodeBool(Field(j, "isExtendedNetwork")),
                       CommonFriends |-> DecodeUserDetailsList(Field(j, "commonFriends")),
                       Details |-> DecodeUserDetails(Field(j, "details"))])
    ELSE [ok |-> StructKind(j), v |-> ZeroFeedEntry]

\* Entries []FeedEntry
DecodeFeedEntries(j) ==
    IF j.t = "arr"
    THEN DecodeSlice([i \in DOMAIN j.items |-> DecodeFeedEntry(j.items[i])])
    ELSE [ok |-> j.t \in {"absent", "null"}, v |-> NilSlice]

DecodeFeedQueue(j) ==
    IF j.t = "obj"
    THEN DecodeStruct([Entries |-> DecodeFeedEntries(Field(j, "entries"))])
    ELSE [ok |-> StructKind(j), v |-> ZeroFeedQueue]

DecodeGenerateResponse(j) ==
    IF j.t = "obj"
    THEN DecodeStruct([Id |-> DecodeInt64(Field(j, "id")),
                       AccessHash |-> DecodeString(Field(j, "accessHash")),
                       Token |-> DecodeString(Field(j, "token"))])
    ELSE [ok |-> StructKind(j), v |-> ZeroAuthorization]

DecodeGenerateFriendTokenResponse(j) ==
    IF j.t = "obj" THEN DecodeStruct([Token |-> DecodeString(Field(j, "token"))])
    ELSE [ok |-> StructKind(j), v |-> [Token |-> EmptyString]]

DecodeAddFriendResponse(j) ==
    IF j.t = "obj" THEN DecodeStruct([Type |-> DecodeString(Field(j, "type"))])
    ELSE [ok |-> StructKind(j), v |-> [Type |-> EmptyString]]

\* The error json.Unmarshal returns for a body that did not decode.
UnmarshalError(body) ==
    CASE body.t = "empty" -> Errorf("unexpected end of JSON input", 0, NoBody)
      [] body.t = "text" -> Errorf("invalid character looking for beginning of value", 0, NoBody)
      [] OTHER -> Errorf("json: cannot unmarshal into Go value", 0, NoBody)

\* The error json.NewDecoder(body).Decode returns for a body that did not
\* decode: a stream that ends before any value is io.EOF.
DecodeError(body) ==
    CASE body.t = "empty" -> Errorf("EOF", 0, NoBody)
      [] body.t = "text" -> Errorf("invalid character looking for beginning of value", 0, NoBody)
      [] OTHER -> Errorf("json: cannot unmarshal into Go value", 0, NoBody)

(***************************************************************************)
(* encoding/json, encoding of the request structs.                         *)
(***************************************************************************)
\* A Go string as json.Marshal writes it: invalid UTF-8 is replaced by U+FFFD.
EncodeString(str) == [i \in DOMAIN str |-> IF str[i] = InvalidByte THEN Replacement ELSE str[i]]

MarshalFileDescriptorPtr(p) ==
    IF p.nil THEN JNull
    ELSE JObj(<<Member("id", JNum(p.v.Id)),
                Member("accessHash", JStr(EncodeString(p.v.AccessHash)))>>)

MarshalInterests(sl) ==
    IF sl.nil THEN JNull ELSE JArr([i \in DOMAIN sl.v |-> JStr(EncodeString(sl.v[i]))])

MarshalUserDetails(u) ==
    JObj(<<Member("id", JNum(u.Id)),
           Member("accessHash", JStr(EncodeString(u.AccessHash))),
           Member("nickname", JStr(EncodeString(u.Nickname))),
           Member("description", JStr(EncodeString(u.Description))),
           Member("interests", MarshalInterests(u.Interests)),
           Member("avatar", MarshalFileDescriptorPtr(u.Avatar))>>)

\* []UserDetails: a nil slice is null, any other an array in the slice's order.
MarshalUserDetailsList(sl) ==
    IF sl.nil THEN JNull ELSE JArr([i \in DOMAIN sl.v |-> MarshalUserDetails(sl.v[i])])

MarshalFeedEntry(entry) ==
    JObj(<<Member("isExtendedNetwork", JBool(entry.IsExtendedNetwork)),
           Member("commonFriends", MarshalUserDetailsList(entry.CommonFriends)),
           Member("details", MarshalUserDetails(entry.Details))>>)

\* FeedQueue whose entries member were tagged omitempty.
MarshalFeedQueue_omitempty(feed) ==
    IF feed.Entries.nil \/ feed.Entries.v = <<>> THEN JObj(<<>>)
    ELSE JObj(<<Member("entries",
                       JArr([i \in DOMAIN feed.Entries.v |->
                                MarshalFeedEntry(feed.Entries.v[i])]))>>)

MarshalFeedQueue(feed) ==
    JObj(<<Member("entries",
                  IF feed.Entries.nil THEN JNull
                  ELSE JArr([i \in DOMAIN feed.Entries.v |->
                                MarshalFeedEntry(feed.Entries.v[i])]))>>)

MarshalGenerateRequest(req) ==
    JObj(<<Member("nickname", JStr(EncodeString(req.Nickname))),
           Member("description", JStr(EncodeString(req.Description))),
           Member("interests", MarshalInterests(req.Interests)),
           Member("avatar", MarshalFileDescriptorPtr(req.Avatar))>>)

MarshalAddFriendRequest(req) ==
    JObj(<<Member("token", JStr(EncodeString(req.Token))), Member("userId", JNum(req.UserId))>>)

MarshalFriendRequestRequest(req) ==
    JObj(<<Member("userId", JNum(req.UserId)),
           Member("userAccessHash", JStr(EncodeString(req.AccessHash)))>>)

(***************************************************************************)
(* The client and the request executor.                                    *)
(***************************************************************************)
StatusOK == 200

StatusUnauthorized == 401

StatusNotFound == 404

TimeoutSeconds == 30

NewClient(endpoint) == [url |-> endpoint, http |-> [Timeout |-> TimeoutSeconds]]

NewLocalhostClient(port) == NewClient(<<"http://localhost:">> \o FormatInt(port))

NewMeetacyClient == NewClient(<<"https://meetacy.app/friendly">>)

\* A host that net/url refuses ("invalid character in host name").
BadHost == "http://bad host"

\* http.NewRequest succeeds when the URL parses.
URLParses(u) == \A i \in DOMAIN u : u[i] # BadHost

NoResponse == [StatusCode |-> 0, Body |-> NoBody]

\* c.http.Do(req) when the transport answers n: the request is handed to the
\* transport once, which gives back a response or a transport error.
HttpDo(c, req, n) ==
    [sent |-> <<req>>,
     resp |-> IF n.fail THEN NoResponse ELSE n.resp,
     err  |-> IF n.fail THEN n.err ELSE NilErr]

\* Client.do that tries once more when the transport fails.
do_retry(c, method, path, auth, body, n) ==
    LET base == ("Content-Type" :> <<"application/json">>)
        hdr == IF auth.nil THEN base
               ELSE ("X-User-Id" :> FormatInt(auth.v.Id))
                    @@ ("X-Token" :> auth.v.Token) @@ base
        req == [method |-> method, url |-> c.url \o path, header |-> hdr, body |-> body]
        d == HttpDo(c, req, n)
        again == HttpDo(c, req, n)
    IN  IF ~URLParses(c.url \o path)
        THEN [sent |-> <<>>, resp |-> NoResponse,
              err |-> Errorf("failed to create request: %w", 0, NoBody)]
        ELSE IF ~d.err.nil
        THEN [sent |-> d.sent \o again.sent, resp |-> NoResponse,
              err |-> Wrap("failed to execute request: %w", again.err)]
        ELSE d

\* Client.do that sends the access hash where the token belongs.
do_hash(c, method, path, auth, body, n) ==
    LET base == ("Content-Type" :> <<"application/json">>)
        hdr == IF auth.nil THEN base
               ELSE ("X-User-Id" :> FormatInt(auth.v.Id))
                    @@ ("X-Token" :> auth.v.AccessHash) @@ base
        req == [method |-> method, url |-> c.url \o path, header |-> hdr, body |-> body]
        d == HttpDo(c, req, n)
    IN  IF ~URLParses(c.url \o path)
        THEN [sent |-> <<>>, resp |-> NoResponse,
              err |-> Errorf("failed to create request: %w", 0, NoBody)]
        ELSE IF ~d.err.nil
        THEN [sent |-> d.sent, resp |-> NoResponse,
              err |-> Wrap("failed to execute request: %w", d.err)]
        ELSE d

\* body is the JSON encoding of the value passed to do, NoBody for nil:
\* json.Marshal cannot fail on the request structs (strings and integers).
do(c, method, path, auth, body, n) ==
    LET base == ("Content-Type" :> <<"application/json">>)
        hdr == IF auth.nil THEN base
               ELSE ("X-User-Id" :> FormatInt(auth.v.Id))
                    @@ ("X-Token" :> auth.v.Token) @@ base
        req == [method |-> method, url |-> c.url \o path, header |-> hdr, body |-> body]
        d == HttpDo(c, req, n)
    IN  IF ~URLParses(c.url \o path)
        THEN [sent |-> <<>>, resp |-> NoResponse,
              err |-> Errorf("failed to create request: %w", 0, NoBody)]
        ELSE IF ~d.err.nil
        THEN [sent |-> d.sent, resp |-> NoResponse,
              err |-> Wrap("failed to execute request: %w", d.err)]
        ELSE d

\* What an operation returns: the requests it issued, its result, its error.
Return(sent_, result_, err_) == [sent |-> sent_, result |-> result_, err |-> err_]

\* The absent first return value of a function that returns only an error.
NoResult == <<>>

(***************************************************************************)
(* Endpoint operations, package api.                                       *)
(***************************************************************************)
\* Generate with the access hash and the token of the response swapped.
Generate_swapped(c, nickname, description, interests, avatar, n) ==
    LET req == [Nickname |-> nickname, Description |-> description,
                Interests |-> interests, Avatar |-> avatar]
        d == do(c, "POST", <<"/auth/generate">>, NilAuth, MarshalGenerateRequest(req), n)
        bodyBytes == d.resp.Body
        genResp == DecodeGenerateResponse(bodyBytes)
        none == NilPtr(ZeroAuthorization)
    IN  IF ~d.err.nil
        THEN Return(d.sent, none, Wrap("request failed: %w", d.err))
        ELSE IF d.resp.StatusCode # StatusOK
        THEN Return(d.sent, none,
                    Errorf("generate failed with status %d: %s", d.resp.StatusCode, bodyBytes))
        ELSE IF ~genResp.ok
        THEN Return(d.sent, none,
                    [Wrap("failed to decode response: %w, body: %s", UnmarshalError(bodyBytes))
                        EXCEPT !.body = bodyBytes])
        ELSE Return(d.sent,
                    Ptr([Id |-> genResp.v.Id, AccessHash |-> genResp.v.Token,
                         Token |-> genResp.v.AccessHash]),
                    NilErr)

Generate(c, nickname, description, interests, avatar, n) ==
    LET req == [Nickname |-> nickname, Description |-> description,
                Interests |-> interests, Avatar |-> avatar]
        d == do(c, "POST", <<"/auth/generate">>, NilAuth, MarshalGenerateRequest(req), n)
        bodyBytes == d.resp.Body
        genResp == DecodeGenerateResponse(bodyBytes)
        none == NilPtr(ZeroAuthorization)
    IN  IF ~d.err.nil
        THEN Return(d.sent, none, Wrap("request failed: %w", d.err))
        ELSE IF d.resp.StatusCode # StatusOK
        THEN Return(d.sent, none,
                    Errorf("generate failed with status %d: %s", d.resp.StatusCode, bodyBytes))
        ELSE IF ~genResp.ok
        THEN Return(d.sent, none,
                    [Wrap("failed to decode response: %w, body: %s", UnmarshalError(bodyBytes))
                        EXCEPT !.body = bodyBytes])
        ELSE Return(d.sent,
                    Ptr([Id |-> genResp.v.Id, AccessHash |-> genResp.v.AccessHash,
                         Token |-> genResp.v.Token]),
                    NilErr)

\* GetSelfDetails whose status error leaves the status code out.
GetSelfDetails_nocode(c, auth, n) ==
    LET d == do(c, "GET", <<"/users/details">>, auth, NoBody, n)
        details == DecodeUserDetails(d.resp.Body)
        none == NilPtr(ZeroUserDetails)
    IN  IF ~d.err.nil THEN Return(d.sent, none, d.err)
        ELSE IF d.resp.StatusCode = StatusUnauthorized
        THEN Return(d.sent, none, Errorf("unauthorized", 0, NoBody))
        ELSE IF d.resp.StatusCode # StatusOK
        THEN Return(d.sent, none, Errorf("get details failed", 0, NoBody))
        ELSE IF ~details.ok THEN Return(d.sent, none, DecodeError(d.resp.Body))
        ELSE Return(d.sent, Ptr(details.v), NilErr)

GetSelfDetails(c, auth, n) ==
    LET d == do(c, "GET", <<"/users/details">>, auth, NoBody, n)
        details == DecodeUserDetails(d.resp.Body)
        none == NilPtr(ZeroUserDetails)
    IN  IF ~d.err.nil THEN Return(d.sent, none, d.err)
        ELSE IF d.resp.StatusCode = StatusUnauthorized
        THEN Return(d.sent, none, Errorf("unauthorized", 0, NoBody))
        ELSE IF d.resp.StatusCode # StatusOK
        THEN Return(d.sent, none,
                    Errorf("get details failed: status %d", d.resp.StatusCode, NoBody))
        ELSE IF ~details.ok THEN Return(d.sent, none, DecodeError(d.resp.Body))
        ELSE Return(d.sent, Ptr(details.v), NilErr)

\* GetUserDetails that returns an empty UserDetails together with its error.
GetUserDetails_both(c, auth, userId, accessHash, n) ==
    LET path == <<"/users/details/">> \o FormatInt(userId) \o <<"/">> \o accessHash
        d == do(c, "GET", path, auth, NoBody, n)
        details == DecodeUserDetails(d.resp.Body)
        none == Ptr(ZeroUserDetails)
    IN  IF ~d.err.nil THEN Return(d.sent, none, d.err)
        ELSE IF d.resp.StatusCode = StatusUnauthorized
        THEN Return(d.sent, none, Errorf("unauthorized", 0, NoBody))
        ELSE IF d.resp.StatusCode # StatusOK
        THEN Return(d.sent, none,
                    Errorf("get user details failed: status %d", d.resp.StatusCode, NoBody))
        ELSE IF ~details.ok THEN Return(d.sent, none, DecodeError(d.resp.Body))
        ELSE Return(d.sent, Ptr(details.v), NilErr)

GetUserDetails(c, auth, userId, accessHash, n) ==
    LET path == <<"/users/details/">> \o FormatInt(userId) \o <<"/">> \o accessHash
        d == do(c, "GET", path, auth, NoBody, n)
        details == DecodeUserDetails(d.resp.Body)
        none == NilPtr(ZeroUserDetails)
    IN  IF ~d.err.nil THEN Return(d.sent, none, d.err)
        ELSE IF d.resp.StatusCode = StatusUnauthorized
        THEN Return(d.sent, none, Errorf("unauthorized", 0, NoBody))
        ELSE IF d.resp.StatusCode # StatusOK
        THEN Return(d.sent, none,
                    Errorf("get user details failed: status %d", d.resp.StatusCode, NoBody))
        ELSE IF ~details.ok THEN Return(d.sent, none, DecodeError(d.resp.Body))
        ELSE Return(d.sent, Ptr(details.v), NilErr)

\* GenerateFriendToken that passes the decoded token through NewFriendToken.
GenerateFriendToken_validating(c, auth, n) ==
    LET d == do(c, "POST", <<"/friends/generate">>, auth, NoBody, n)
        tokenResp == DecodeGenerateFriendTokenResponse(d.resp.Body)
        checked == NewFriendToken(tokenResp.v.Token)
    IN  IF ~d.err.nil THEN Return(d.sent, EmptyString, d.err)
        ELSE IF d.resp.StatusCode = StatusUnauthorized
        THEN Return(d.sent, EmptyString, Errorf("unauthorized", 0, NoBody))
        ELSE IF d.resp.StatusCode # StatusOK
        THEN Return(d.sent, EmptyString,
                    Errorf("generate token failed: status %d", d.resp.StatusCode, NoBody))
        ELSE IF ~tokenResp.ok THEN Return(d.sent, EmptyString, DecodeError(d.resp.Body))
        ELSE Return(d.sent, checked.v, checked.err)

GenerateFriendToken(c, auth, n) ==
    LET d == do(c, "POST", <<"/friends/generate">>, auth, NoBody, n)
        tokenResp == DecodeGenerateFriendTokenResponse(d.resp.Body)
    IN  IF ~d.err.nil THEN Return(d.sent, EmptyString, d.err)
        ELSE IF d.resp.StatusCode = StatusUnauthorized
        THEN Return(d.sent, EmptyString, Errorf("unauthorized", 0, NoBody))
        ELSE IF d.resp.StatusCode # StatusOK
        THEN Return(d.sent, EmptyString,
                    Errorf("generate token failed: status %d", d.resp.StatusCode, NoBody))
        ELSE IF ~tokenResp.ok THEN Return(d.sent, EmptyString, DecodeError(d.resp.Body))
        ELSE Return(d.sent, tokenResp.v.Token, NilErr)

FriendTokenExpired ==
    <<"F", "r", "i", "e", "n", "d", "T", "o", "k", "e", "n",
      "E", "x", "p", "i", "r", "e", "d">>

\* AddFriend that never looks at the type discriminator.
AddFriend_ignoreType(c, auth, token, userId, n) ==
    LET req == [Token |-> token, UserId |-> userId]
        d == do(c, "POST", <<"/friends/add">>, auth, MarshalAddFriendRequest(req), n)
        addResp == DecodeAddFriendResponse(d.resp.Body)
    IN  IF ~d.err.nil THEN Return(d.sent, NoResult, d.err)
        ELSE IF d.resp.StatusCode = StatusUnauthorized
        THEN Return(d.sent, NoResult, Errorf("unauthorized", 0, NoBody))
        ELSE IF d.resp.StatusCode # StatusOK
        THEN Return(d.sent, NoResult,
                    Errorf("add friend failed: status %d", d.resp.StatusCode, NoBody))
        ELSE IF ~addResp.ok THEN Return(d.sent, NoResult, DecodeError(d.resp.Body))
        ELSE Return(d.sent, NoResult, NilErr)

AddFriend(c, auth, token, userId, n) ==
    LET req == [Token |-> token, UserId |-> userId]
        d == do(c, "POST", <<"/friends/add">>, auth, MarshalAddFriendRequest(req), n)
        addResp == DecodeAddFriendResponse(d.resp.Body)
    IN  IF ~d.err.nil THEN Return(d.sent, NoResult, d.err)
        ELSE IF d.resp.StatusCode = StatusUnauthorized
        THEN Return(d.sent, NoResult, Errorf("unauthorized", 0, NoBody))
        ELSE IF d.resp.StatusCode # StatusOK
        THEN Return(d.sent, NoResult,
                    Errorf("add friend failed: status %d", d.resp.StatusCode, NoBody))
        ELSE IF ~addResp.ok THEN Return(d.sent, NoResult, DecodeError(d.resp.Body))
        ELSE IF addResp.v.Type = FriendTokenExpired
        THEN Return(d.sent, NoResult, Errorf("friend token expired", 0, NoBody))
        ELSE Return(d.sent, NoResult, NilErr)

\* SendFriendRequest without the 404 branch.
SendFriendRequest_no404(c, auth, userId, accessHash, n) ==
    LET req == [UserId |-> userId, AccessHash |-> accessHash]
        d == do(c, "POST", <<"/friends/request">>, auth, MarshalFriendRequestRequest(req), n)
    IN  IF ~d.err.nil THEN Return(d.sent, NoResult, d.err)
        ELSE IF d.resp.StatusCode = StatusUnauthorized
        THEN Return(d.sent, NoResult, Errorf("unauthorized", 0, NoBody))
        ELSE IF d.resp.StatusCode # StatusOK
        THEN Return(d.sent, NoResult,
                    Errorf("send request failed: status %d", d.resp.StatusCode, NoBody))
        ELSE Return(d.sent, NoResult, NilErr)

SendFriendRequest(c, auth, userId, accessHash, n) ==
    LET req == [UserId |-> userId, AccessHash |-> accessHash]
        d == do(c, "POST", <<"/friends/request">>, auth, MarshalFriendRequestRequest(req), n)
    IN  IF ~d.err.nil THEN Return(d.sent, NoResult, d.err)
        ELSE IF d.resp.StatusCode = StatusUnauthorized
        THEN Return(d.sent, NoResult, Errorf("unauthorized", 0, NoBody))
        ELSE IF d.resp.StatusCode = StatusNotFound
        THEN Return(d.sent, NoResult, Errorf("user not found", 0, NoBody))
        ELSE IF d.resp.StatusCode # StatusOK
        THEN Return(d.sent, NoResult,
                    Errorf("send request failed: status %d", d.resp.StatusCode, NoBody))
        ELSE Return(d.sent, NoResult, NilErr)

DeclineFriendRequest(c, auth, userId, accessHash, n) ==
    LET req == [UserId |-> userId, AccessHash |-> accessHash]
        d == do(c, "POST", <<"/friends/decline">>, auth, MarshalFriendRequestRequest(req), n)
    IN  IF ~d.err.nil THEN Return(d.sent, NoResult, d.err)
        ELSE IF d.resp.StatusCode = StatusUnauthorized
        THEN Return(d.sent, NoResult, Errorf("unauthorized", 0, NoBody))
        ELSE IF d.resp.StatusCode = StatusNotFound
        THEN Return(d.sent, NoResult, Errorf("user not found", 0, NoBody))
        ELSE IF d.resp.StatusCode # StatusOK
        THEN Return(d.sent, NoResult,
                    Errorf("decline request failed: status %d", d.resp.StatusCode, NoBody))
        ELSE Return(d.sent, NoResult, NilErr)

\* GetNetworkDetails that hands back what was decoded before the failure.
GetNetworkDetails_partial(c, auth, n) ==
    LET d == do(c, "GET", <<"/network/details">>, auth, NoBody, n)
        network == DecodeNetworkDetails(d.resp.Body)
        none == NilPtr(ZeroNetworkDetails)
    IN  IF ~d.err.nil THEN Return(d.sent, none, d.err)
        ELSE IF d.resp.StatusCode = StatusUnauthorized
        THEN Return(d.sent, none, Errorf("unauthorized", 0, NoBody))
        ELSE IF d.resp.StatusCode # StatusOK
        THEN Return(d.sent, none,
                    Errorf("get network failed: status %d", d.resp.StatusCode, NoBody))
        ELSE Return(d.sent, Ptr(network.v), NilErr)

GetNetworkDetails(c, auth, n) ==
    LET d == do(c, "GET", <<"/network/details">>, auth, NoBody, n)
        network == DecodeNetworkDetails(d.resp.Body)
        none == NilPtr(ZeroNetworkDetails)
    IN  IF ~d.err.nil THEN Return(d.sent, none, d.err)
        ELSE IF d.resp.StatusCode = StatusUnauthorized
        THEN Return(d.sent, none, Errorf("unauthorized", 0, NoBody))
        ELSE IF d.resp.StatusCode # StatusOK
        THEN Return(d.sent, none,
                    Errorf("get network failed: status %d", d.resp.StatusCode, NoBody))
        ELSE IF ~network.ok THEN Return(d.sent, none, DecodeError(d.resp.Body))
        ELSE Return(d.sent, Ptr(network.v), NilErr)

\* GetFeedQueue without the 401 branch.
GetFeedQueue_no401(c, auth, n) ==
    LET d == do(c, "GET", <<"/feed/queue">>, auth, NoBody, n)
        feed == DecodeFeedQueue(d.resp.Body)
        none == NilPtr(ZeroFeedQueue)
    IN  IF ~d.err.nil THEN Return(d.sent, none, d.err)
        ELSE IF d.resp.StatusCode # StatusOK
        THEN Return(d.sent, none,
                    Errorf("get feed failed: status %d", d.resp.StatusCode, NoBody))
        ELSE IF ~feed.ok THEN Return(d.sent, none, DecodeError(d.resp.Body))
        ELSE Return(d.sent, Ptr(feed.v), NilErr)

GetFeedQueue(c, auth, n) ==
    LET d == do(c, "GET", <<"/feed/queue">>, auth, NoBody, n)
        feed == DecodeFeedQueue(d.resp.Body)
        none == NilPtr(ZeroFeedQueue)
    IN  IF ~d.err.nil THEN Return(d.sent, none, d.err)
        ELSE IF d.resp.StatusCode = StatusUnauthorized
        THEN Return(d.sent, none, Errorf("unauthorized", 0, NoBody))
        ELSE IF d.resp.StatusCode # StatusOK
        THEN Return(d.sent, none,
                    Errorf("get feed failed: status %d", d.resp.StatusCode, NoBody))
        ELSE IF ~feed.ok THEN Return(d.sent, none, DecodeError(d.resp.Body))
        ELSE Return(d.sent, Ptr(feed.v), NilErr)

\* GetFileURL with the access hash and the id in each other's place.
GetFileURL_swapped(c, descriptor) ==
    c.url \o <<"/files/download/">> \o descriptor.v.AccessHash \o <<"/">>
          \o FormatInt(descriptor.v.Id)

\* fmt.Sprintf("%s/files/download/%d/%s", c.url, descriptor.Id, descriptor.AccessHash)
GetFileURL(c, descriptor) ==
    c.url \o <<"/files/download/">> \o FormatInt(descriptor.v.Id) \o <<"/">>
          \o descriptor.v.AccessHash

\* The multipart form UploadFile builds: one file field named "file".
MultipartForm(filename, data) ==
    [k |-> "file", t |-> "multipart", s |-> data, n |-> 0,
     items |-> <<Member("filename", JStr(filename))>>]

\* UploadFile that maps 401 to the unauthorized error as the other operations do.
UploadFile_401(c, filename, reader, n) ==
    LET hdr == ("Content-Type" :> <<"multipart/form-data; boundary=">>)
        req == [method |-> "POST", url |-> c.url \o <<"/files/upload">>,
                header |-> hdr, body |-> MultipartForm(filename, reader.data)]
        d == HttpDo(c, req, n)
        uploadResp == DecodeFileDescriptor(d.resp.Body)
        none == NilPtr(ZeroFileDescriptor)
    IN  IF reader.fail
        THEN Return(<<>>, none, Errorf("read error", 0, NoBody))
        ELSE IF ~URLParses(c.url \o <<"/files/upload">>)
        THEN Return(<<>>, none, Errorf("parse url", 0, NoBody))
        ELSE IF ~d.err.nil THEN Return(d.sent, none, d.err)
        ELSE IF d.resp.StatusCode = StatusUnauthorized
        THEN Return(d.sent, none, Errorf("unauthorized", 0, NoBody))
        ELSE IF d.resp.StatusCode # StatusOK
        THEN Return(d.sent, none,
                    Errorf("upload failed: status %d", d.resp.StatusCode, NoBody))
        ELSE IF ~uploadResp.ok THEN Return(d.sent, none, DecodeError(d.resp.Body))
        ELSE Return(d.sent,
                    Ptr([Id |-> uploadResp.v.Id, AccessHash |-> uploadResp.v.AccessHash]),
                    NilErr)

\* reader is [fail, data]: io.Copy fails when reading the source fails.
UploadFile(c, filename, reader, n) ==
    LET hdr == ("Content-Type" :> <<"multipart/form-data; boundary=">>)
        req == [method |-> "POST", url |-> c.url \o <<"/files/upload">>,
                header |-> hdr, body |-> MultipartForm(filename, reader.data)]
        d == HttpDo(c, req, n)
        uploadResp == DecodeFileDescriptor(d.resp.Body)
        none == NilPtr(ZeroFileDescriptor)
    IN  IF reader.fail
        THEN Return(<<>>, none, Errorf("read error", 0, NoBody))
        ELSE IF ~URLParses(c.url \o <<"/files/upload">>)
        THEN Return(<<>>, none, Errorf("parse url", 0, NoBody))
        ELSE IF ~d.err.nil THEN Return(d.sent, none, d.err)
        ELSE IF d.resp.StatusCode # StatusOK
        THEN Return(d.sent, none,
                    Errorf("upload failed: status %d", d.resp.StatusCode, NoBody))
        ELSE IF ~uploadResp.ok THEN Return(d.sent, none, DecodeError(d.resp.Body))
        ELSE Return(d.sent,
                    Ptr([Id |-> uploadResp.v.Id, AccessHash |-> uploadResp.v.AccessHash]),
                    NilErr)

(***************************************************************************)
(* Package friendly: the second copy of the SDK.  Its Client names its     *)
(* fields endpoint and httpClient, its request executor is doRequest, and  *)
(* its UploadFile takes a content type.  The operators reuse the value     *)
(* representation, the JSON decoders and encoders and the transport of     *)
(* the sections above: both packages declare the same types with the same  *)
(* json tags and use the same libraries.                                   *)
(***************************************************************************)
friendly_NewNickname(s) ==
    IF GoLen(s) > 256
    THEN [v |-> EmptyString, err |-> Errorf("nickname too long: %d > 256", GoLen(s), NoBody)]
    ELSE [v |-> s, err |-> NilErr]

friendly_NewUserDescription(s) ==
    IF GoLen(s) > 1024
    THEN [v |-> EmptyString, err |-> Errorf("description too long: %d > 1024", GoLen(s), NoBody)]
    ELSE [v |-> s, err |-> NilErr]

friendly_NewInterest(s) ==
    IF GoLen(s) > 64
    THEN [v |-> EmptyString, err |-> Errorf("interest too long: %d > 64", GoLen(s), NoBody)]
    ELSE [v |-> s, err |-> NilErr]

friendly_NewToken(s) ==
    IF GoLen(s) # 256
    THEN [v |-> EmptyString, err |-> Errorf("token must be 256 characters, got %d", GoLen(s), NoBody)]
    ELSE [v |-> s, err |-> NilErr]

friendly_NewUserAccessHash(s) ==
    IF GoLen(s) # 256
    THEN [v |-> EmptyString, err |-> Errorf("access hash must be 256 characters, got %d", GoLen(s), NoBody)]
    ELSE [v |-> s, err |-> NilErr]

friendly_NewFileAccessHash(s) ==
    IF GoLen(s) # 256
    THEN [v |-> EmptyString, err |-> Errorf("file access hash must be 256 characters, got %d", GoLen(s), NoBody)]
    ELSE [v |-> s, err |-> NilErr]

friendly_NewFriendToken(s) ==
    IF GoLen(s) # 256
    THEN [v |-> EmptyString, err |-> Errorf("friend token must be 256 characters, got %d", GoLen(s), NoBody)]
    ELSE [v |-> s, err |-> NilErr]

friendly_NewClient(endpoint) == [endpoint |-> endpoint, httpClient |-> [Timeout |-> 30]]

friendly_NewLocalhostClient(port) ==
    friendly_NewClient(<<"http://localhost:">> \o FormatInt(port))

friendly_NewMeetacyClient == friendly_NewClient(<<"https://meetacy.app/friendly">>)

\* generateResponse of package friendly declares Token before Id and
\* AccessHash, with the tags of package api.
friendly_DecodeGenerateResponse(j) ==
    IF j.t = "obj"
    THEN DecodeStruct([Token |-> DecodeString(Field(j, "token")),
                       Id |-> DecodeInt64(Field(j, "id")),
                       AccessHash |-> DecodeString(Field(j, "accessHash"))])
    ELSE [ok |-> StructKind(j), v |-> ZeroAuthorization]

\* body is the JSON encoding of the value passed to doRequest, NoBody for nil.
friendly_doRequest(c, method, path, auth, body, n) ==
    LET base == ("Content-Type" :> <<"application/json">>)
        hdr == IF auth.nil THEN base
               ELSE ("X-User-Id" :> FormatInt(auth.v.Id))
                    @@ ("X-Token" :> auth.v.Token) @@ base
        req == [method |-> method, url |-> c.endpoint \o path, header |-> hdr, body |-> body]
        d == HttpDo(c, req, n)
    IN  IF ~URLParses(c.endpoint \o path)
        THEN [sent |-> <<>>, resp |-> NoResponse,
              err |-> Errorf("failed to create request: %w", 0, NoBody)]
        ELSE IF ~d.err.nil
        THEN [sent |-> d.sent, resp |-> NoResponse,
              err |-> Wrap("failed to execute request: %w", d.err)]
        ELSE d

friendly_Generate(c, nickname, description, interests, avatar, n) ==
    LET req == [Nickname |-> nickname, Description |-> description,
                Interests |-> interests, Avatar |-> avatar]
        d == friendly_doRequest(c, "POST", <<"/auth/generate">>, NilAuth,
                                MarshalGenerateRequest(req), n)
        bodyBytes == d.resp.Body
        genResp == friendly_DecodeGenerateResponse(bodyBytes)
        none == NilPtr(ZeroAuthorization)
    IN  IF ~d.err.nil
        THEN Return(d.sent, none, Wrap("request failed: %w", d.err))
        ELSE IF d.resp.StatusCode # StatusOK
        THEN Return(d.sent, none,
                    Errorf("generate failed with status %d: %s", d.resp.StatusCode, bodyBytes))
        ELSE IF ~genResp.ok
        THEN Return(d.sent, none,
                    [Wrap("failed to decode response: %w, body: %s", UnmarshalError(bodyBytes))
                        EXCEPT !.body = bodyBytes])
        ELSE Return(d.sent,
                    Ptr([Id |-> genResp.v.Id, AccessHash |-> genResp.v.AccessHash,
                         Token |-> genResp.v.Token]),
                    NilErr)

friendly_GetSelfDetails(c, auth, n) ==
    LET d == friendly_doRequest(c, "GET", <<"/users/details">>, auth, NoBody, n)
        details == DecodeUserDetails(d.resp.Body)
        none == NilPtr(ZeroUserDetails)
    IN  IF ~d.err.nil THEN Return(d.sent, none, d.err)
        ELSE IF d.resp.StatusCode = StatusUnauthorized
        THEN Return(d.sent, none, Errorf("unauthorized", 0, NoBody))
        ELSE IF d.resp.StatusCode # StatusOK
        THEN Return(d.sent, none,
                    Errorf("get details failed: status %d", d.resp.StatusCode, NoBody))
        ELSE IF ~details.ok THEN Return(d.sent, none, DecodeError(d.resp.Body))
        ELSE Return(d.sent, Ptr(details.v), NilErr)

friendly_GetUserDetails(c, auth, userId, accessHash, n) ==
    LET path == <<"/users/details/">> \o FormatInt(userId) \o <<"/">> \o accessHash
        d == friendly_doRequest(c, "GET", path, auth, NoBody, n)
        details == DecodeUserDetails(d.resp.Body)
        none == NilPtr(ZeroUserDetails)
    IN  IF ~d.err.nil THEN Return(d.sent, none, d.err)
        ELSE IF d.resp.StatusCode = StatusUnauthorized
        THEN Return(d.sent, none, Errorf("unauthorized", 0, NoBody))
        ELSE IF d.resp.StatusCode # StatusOK
        THEN Return(d.sent, none,
                    Errorf("get user details failed: status %d", d.resp.StatusCode, NoBody))
        ELSE IF ~details.ok THEN Return(d.sent, none, DecodeError(d.resp.Body))
        ELSE Return(d.sent, Ptr(details.v), NilErr)

friendly_GenerateFriendToken(c, auth, n) ==
    LET d == friendly_doRequest(c, "POST", <<"/friends/generate">>, auth, NoBody, n)
        tokenResp == DecodeGenerateFriendTokenResponse(d.resp.Body)
    IN  IF ~d.err.nil THEN Return(d.sent, EmptyString, d.err)
        ELSE IF d.resp.StatusCode = StatusUnauthorized
        THEN Return(d.sent, EmptyString, Errorf("unauthorized", 0, NoBody))
        ELSE IF d.resp.StatusCode # StatusOK
        THEN Return(d.sent, EmptyString,
                    Errorf("generate token failed: status %d", d.resp.StatusCode, NoBody))
        ELSE IF ~tokenResp.ok THEN Return(d.sent, EmptyString, DecodeError(d.resp.Body))
        ELSE Return(d.sent, tokenResp.v.Token, NilErr)

friendly_AddFriend(c, auth, token, userId, n) ==
    LET req == [Token |-> token, UserId |-> userId]
        d == friendly_doRequest(c, "POST", <<"/friends/add">>, auth,
                                MarshalAddFriendRequest(req), n)
        addResp == DecodeAddFriendResponse(d.resp.Body)
    IN  IF ~d.err.nil THEN Return(d.sent, NoResult, d.err)
        ELSE IF d.resp.StatusCode = StatusUnauthorized
        THEN Return(d.sent, NoResult, Errorf("unauthorized", 0, NoBody))
        ELSE IF d.resp.StatusCode # StatusOK
        THEN Return(d.sent, NoResult,
                    Errorf("add friend failed: status %d", d.resp.StatusCode, NoBody))
        ELSE IF ~addResp.ok THEN Return(d.sent, NoResult, DecodeError(d.resp.Body))
        ELSE IF addResp.v.Type = FriendTokenExpired
        THEN Return(d.sent, NoResult, Errorf("friend token expired", 0, NoBody))
        ELSE Return(d.sent, NoResult, NilErr)

friendly_SendFriendRequest(c, auth, userId, accessHash, n) ==
    LET req == [UserId |-> userId, AccessHash |-> accessHash]
        d == friendly_doRequest(c, "POST", <<"/friends/request">>, auth,
                                MarshalFriendRequestRequest(req), n)
    IN  IF ~d.err.nil THEN Return(d.sent, NoResult, d.err)
        ELSE IF d.resp.StatusCode = StatusUnauthorized
        THEN Return(d.sent, NoResult, Errorf("unauthorized", 0, NoBody))
        ELSE IF d.resp.StatusCode = StatusNotFound
        THEN Return(d.sent, NoResult, Errorf("user not found", 0, NoBody))
        ELSE IF d.resp.StatusCode # StatusOK
        THEN Return(d.sent, NoResult,
                    Errorf("send request failed: status %d", d.resp.StatusCode, NoBody))
        ELSE Return(d.sent, NoResult, NilErr)

friendly_DeclineFriendRequest(c, auth, userId, accessHash, n) ==
    LET req == [UserId |-> userId, AccessHash |-> accessHash]
        d == friendly_doRequest(c, "POST", <<"/friends/decline">>, auth,
                                MarshalFriendRequestRequest(req), n)
    IN  IF ~d.err.nil THEN Return(d.sent, NoResult, d.err)
        ELSE IF d.resp.StatusCode = StatusUnauthorized
        THEN Return(d.sent, NoResult, Errorf("unauthorized", 0, NoBody))
        ELSE IF d.resp.StatusCode = StatusNotFound
        THEN Return(d.sent, NoResult, Errorf("user not found", 0, NoBody))
        ELSE IF d.resp.StatusCode # StatusOK
        THEN Return(d.sent, NoResult,
                    Errorf("decline request failed: status %d", d.resp.StatusCode, NoBody))
        ELSE Return(d.sent, NoResult, NilErr)

friendly_GetNetworkDetails(c, auth, n) ==
    LET d == friendly_doRequest(c, "GET", <<"/network/details">>, auth, NoBody, n)
        network == DecodeNetworkDetails(d.resp.Body)
        none == NilPtr(ZeroNetworkDetails)
    IN  IF ~d.err.nil THEN Return(d.sent, none, d.err)
        ELSE IF d.resp.StatusCode = StatusUnauthorized
        THEN Return(d.sent, none, Errorf("unauthorized", 0, NoBody))
        ELSE IF d.resp.StatusCode # StatusOK
        THEN Return(d.sent, none,
                    Errorf("get network failed: status %d", d.resp.StatusCode, NoBody))
        ELSE IF ~network.ok THEN Return(d.sent, none, DecodeError(d.resp.Body))
        ELSE Return(d.sent, Ptr(network.v), NilErr)

friendly_GetFeedQueue(c, auth, n) ==
    LET d == friendly_doRequest(c, "GET", <<"/feed/queue">>, auth, NoBody, n)
        feed == DecodeFeedQueue(d.resp.Body)
        none == NilPtr(ZeroFeedQueue)
    IN  IF ~d.err.nil THEN Return(d.sent, none, d.err)
        ELSE IF d.resp.StatusCode = StatusUnauthorized
        THEN Return(d.sent, none, Errorf("unauthorized", 0, NoBody))
        ELSE IF d.resp.StatusCode # StatusOK
        THEN Return(d.sent, none,
                    Errorf("get feed failed: status %d", d.resp.StatusCode, NoBody))
        ELSE IF ~feed.ok THEN Return(d.sent, none, DecodeError(d.resp.Body))
        ELSE Return(d.sent, Ptr(feed.v), NilErr)

\* An UploadFile that sends its contentType argument as the Content-Type header.
friendly_UploadFile_typed(c, filename, contentType, reader, n) ==
    LET hdr == ("Content-Type" :> contentType)
        req == [method |-> "POST", url |-> c.endpoint \o <<"/files/upload">>,
                header |-> hdr, body |-> MultipartForm(filename, reader.data)]
        d == HttpDo(c, req, n)
        uploadResp == DecodeFileDescriptor(d.resp.Body)
        none == NilPtr(ZeroFileDescriptor)
    IN  IF reader.fail
        THEN Return(<<>>, none, Errorf("read error", 0, NoBody))
        ELSE IF ~URLParses(c.endpoint \o <<"/files/upload">>)
        THEN Return(<<>>, none, Errorf("parse url", 0, NoBody))
        ELSE IF ~d.err.nil THEN Return(d.sent, none, d.err)
        ELSE IF d.resp.StatusCode # StatusOK
        THEN Return(d.sent, none,
                    Errorf("upload failed: status %d", d.resp.StatusCode, NoBody))
        ELSE IF ~uploadResp.ok THEN Return(d.sent, none, DecodeError(d.resp.Body))
        ELSE Return(d.sent,
                    Ptr([Id |-> uploadResp.v.Id, AccessHash |-> uploadResp.v.AccessHash]),
                    NilErr)

\* contentType is a parameter no statement of the function reads.
friendly_UploadFile(c, filename, contentType, reader, n) ==
    LET hdr == ("Content-Type" :> <<"multipart/form-data; boundary=">>)
        req == [method |-> "POST", url |-> c.endpoint \o <<"/files/upload">>,
                header |-> hdr, body |-> MultipartForm(filename, reader.data)]
        d == HttpDo(c, req, n)
        uploadResp == DecodeFileDescriptor(d.resp.Body)
        none == NilPtr(ZeroFileDescriptor)
    IN  IF reader.fail
        THEN Return(<<>>, none, Errorf("read error", 0, NoBody))
        ELSE IF ~URLParses(c.endpoint \o <<"/files/upload">>)
        THEN Return(<<>>, none, Errorf("parse url", 0, NoBody))
        ELSE IF ~d.err.nil THEN Return(d.sent, none, d.err)
        ELSE IF d.resp.StatusCode # StatusOK
        THEN Return(d.sent, none,
                    Errorf("upload failed: status %d", d.resp.StatusCode, NoBody))
        ELSE IF ~uploadResp.ok THEN Return(d.sent, none, DecodeError(d.resp.Body))
        ELSE Return(d.sent,
                    Ptr([Id |-> uploadResp.v.Id, AccessHash |-> uploadResp.v.AccessHash]),
                    NilErr)

friendly_GetFileURL(c, descriptor) ==
    c.endpoint \o <<"/files/download/">> \o FormatInt(descriptor.v.Id) \o <<"/">>
          \o descriptor.v.AccessHash

(***************************************************************************)
(* The inputs the caller and the server are drawn from.                    *)
(***************************************************************************)
MaxUserId == 1

MaxPort == 8080

UserIds == 0..MaxUserId

\* Lengths around each limit of the constructors, and beyond.
Lengths ==
    {0, 1, InterestMax - 1, InterestMax, InterestMax + 1, HashSize \div 2,
     HashSize - 1, HashSize, HashSize + 1, 2 * HashSize,
     DescriptionMax - 1, DescriptionMax, DescriptionMax + 1}

\* ASCII strings and strings of two-byte characters, of every length above.
InputStrings == {Rep(p, len) : p \in {"a", EAcute}, len \in Lengths}

Auth1 == [Id |-> 7, AccessHash |-> Rep("h", HashSize), Token |-> Rep("t", HashSize)]

Auth2 == [Id |-> 0 - 42, AccessHash |-> Rep("H", HashSize), Token |-> Rep("T", 3)]

Auths == {NilAuth, Ptr(Auth1), Ptr(Auth2)}

AccessHashes == {Rep("u", HashSize), <<"short">>}

FriendTokens == {Rep("f", HashSize)}

Avatars == {NilPtr(ZeroFileDescriptor), Ptr([Id |-> 5, AccessHash |-> Rep("g", HashSize)])}

InterestLists == {NilSlice, Slice(<<>>), Slice(<<<<"go">>, <<"tla">>>>)}

Readers == {[fail |-> FALSE, data |-> <<"PNG...">>], [fail |-> TRUE, data |-> <<>>]}

\* Descriptors handed to GetFileURL (a nil descriptor is a nil dereference).
Descriptors ==
    {Ptr([Id |-> 42, AccessHash |-> <<"h">>]),
     Ptr([Id |-> 5, AccessHash |-> Rep("g", HashSize)]),
     Ptr([Id |-> 0 - 3, AccessHash |-> Rep(EAcute, 2)]),
     Ptr(ZeroFileDescriptor)}

User(id, nick, interests, avatar) ==
    [Id |-> id, AccessHash |-> Rep("x", HashSize), Nickname |-> nick,
     Description |-> <<"likes ", EAcute>>, Interests |-> interests, Avatar |-> avatar]

Carol == User(31, <<"carol">>, Slice(<<<<"tea">>, <<"go">>>>), NilPtr(ZeroFileDescriptor))

Dave == User(32, <<"dave">>, Slice(<<>>), Ptr([Id |-> 9, AccessHash |-> Rep("y", HashSize)]))

Erin == User(33, <<"erin">>, NilSlice, NilPtr(ZeroFileDescriptor))

\* A nickname that holds a byte that is not UTF-8.
Mallory == User(34, <<"m", InvalidByte>>, NilSlice, NilPtr(ZeroFileDescriptor))

Entry(ext, common, details) ==
    [IsExtendedNetwork |-> ext, CommonFriends |-> common, Details |-> details]

\* FeedQueue values a program can hold.
FeedQueues ==
    {ZeroFeedQueue,
     [Entries |-> Slice(<<>>)],
     [Entries |-> Slice(<<ZeroFeedEntry>>)],
     [Entries |-> Slice(<<Entry(TRUE, Slice(<<Dave, Erin>>), Carol),
                          Entry(FALSE, NilSlice, Dave),
                          Entry(FALSE, Slice(<<>>), Erin)>>)],
     [Entries |-> Slice(<<Entry(FALSE, Slice(<<>>), Erin),
                          Entry(TRUE, Slice(<<Erin, Dave>>), Carol)>>)],
     [Entries |-> Slice(<<Entry(TRUE, Slice(<<Carol>>), Mallory)>>)]}

Endpoints == {NewMeetacyClient.url, NewLocalhostClient(MaxPort).url, <<BadHost>>}

UserJson(id, hash, nick, desc, interests, avatar) ==
    JObj(<<Member("id", JNum(id)), Member("accessHash", JStr(hash)),
           Member("nickname", JStr(nick)), Member("description", JStr(desc)),
           Member("interests", interests), Member("avatar", avatar)>>)

Alice ==
    UserJson(11, Rep("x", HashSize), <<"alice">>, <<"likes tea">>,
             JArr(<<JStr(<<"tea">>), JStr(<<"go">>)>>),
             JObj(<<Member("id", JNum(3)), Member("accessHash", JStr(Rep("y", HashSize)))>>))

\* A user whose fields are longer or shorter than the constructors allow.
Oversize ==
    UserJson(12, Rep("x", 5), Rep("n", NicknameMax + 1), Rep("d", DescriptionMax + 1),
             JArr(<<JStr(Rep("i", InterestMax + 1))>>),
             JObj(<<Member("id", JNum(4)), Member("accessHash", JStr(<<"tiny">>))>>))

\* A user whose interests are not an array.
Malformed == UserJson(13, Rep("x", HashSize), <<"bob">>, <<>>, JNum(1), JNull)

Bodies ==
    { EmptyBody,
      TextBody(<<"<html>502 Bad Gateway</html>">>),
      JNull,
      JArr(<<>>),
      JObj(<<>>),
      JObj(<<Member("id", JNum(21)), Member("accessHash", JStr(Rep("p", HashSize))),
             Member("token", JStr(Rep("q", HashSize)))>>),
      JObj(<<Member("token", JStr(<<"abc">>)), Member("id", JNum(22)),
             Member("accessHash", JStr(Rep(EAcute, HashSize)))>>),
      JObj(<<Member("id", JStr(<<"23">>)), Member("accessHash", JStr(Rep("p", HashSize))),
             Member("token", JNum(5))>>),
      JObj(<<Member("type", JStr(FriendTokenExpired))>>),
      JObj(<<Member("type", JStr(<<"Success">>))>>),
      JObj(<<Member("type", JStr(<<"friendtokenexpired">>))>>),
      JObj(<<Member("type", JNum(7))>>),
      Alice,
      Oversize,
      Malformed,
      JObj(<<Member("friends", JArr(<<Alice, Oversize>>))>>),
      JObj(<<Member("entries",
                    JArr(<<JObj(<<Member("isExtendedNetwork", JBool(TRUE)),
                                  Member("commonFriends", JArr(<<Alice>>)),
                                  Member("details", Oversize)>>)>>))>>) }

Statuses == {StatusOK, 204, StatusUnauthorized, StatusNotFound, 500}

NetFail ==
    [fail |-> TRUE, resp |-> NoResponse,
     err |-> Errorf("dial tcp: connection refused", 0, NoBody)]

\* The transport was not asked anything.
NoNet == [fail |-> FALSE, resp |-> NoResponse, err |-> NilErr]

Outcomes ==
    {NetFail} \cup
    {[fail |-> FALSE, resp |-> [StatusCode |-> st, Body |-> b], err |-> NilErr] :
        st \in Statuses, b \in Bodies}

(***************************************************************************)
(* The state machine: the caller holds one client and calls one SDK        *)
(* function after another; every call runs to its return (op = "none"      *)
(* between calls).                                                         *)
(***************************************************************************)
Init ==
    /\ client \in {NewClient(e) : e \in Endpoints}
    /\ op = "none"
    /\ args = <<>>
    /\ net = NoNet
    /\ sent = <<>>
    /\ result = NoResult
    /\ err = NilErr
    /\ threads = <<>>
    /\ model = <<>>
    /\ msg = <<>>
    /\ calls = <<>>

\* The state after a call of function name with arguments a that returned r.
Returned(name, a, n, r) ==
    /\ op = "none"
    /\ op' = name
    /\ args' = a
    /\ net' = IF r.sent = <<>> THEN NoNet ELSE n
    /\ sent' = r.sent
    /\ result' = r.result
    /\ err' = r.err
    /\ UNCHANGED <<client, others>>

\* The state after a constructor call: no request is involved.
Constructed(name, s, r) ==
    /\ op = "none"
    /\ op' = name
    /\ args' = [s |-> s]
    /\ net' = NoNet
    /\ sent' = <<>>
    /\ result' = r.v
    /\ err' = r.err
    /\ UNCHANGED <<client, others>>

CallNewNickname == \E s \in InputStrings : Constructed("NewNickname", s, NewNickname(s))

CallNewUserDescription ==
    \E s \in InputStrings : Constructed("NewUserDescription", s, NewUserDescription(s))

CallNewInterest == \E s \in InputStrings : Constructed("NewInterest", s, NewInterest(s))

CallNewToken == \E s \in InputStrings : Constructed("NewToken", s, NewToken(s))

CallNewUserAccessHash ==
    \E s \in InputStrings : Constructed("NewUserAccessHash", s, NewUserAccessHash(s))

CallNewFileAccessHash ==
    \E s \in InputStrings : Constructed("NewFileAccessHash", s, NewFileAccessHash(s))

CallNewFriendToken == \E s \in InputStrings : Constructed("NewFriendToken", s, NewFriendToken(s))

CallGenerate ==
    \E nick \in {<<"alice">>}, desc \in {<<"likes tea">>}, ints \in InterestLists,
       av \in Avatars, n \in Outcomes :
        Returned("Generate",
                 [nickname |-> nick, description |-> desc, interests |-> ints, avatar |-> av],
                 n, Generate(client, nick, desc, ints, av, n))

CallGetSelfDetails ==
    \E auth \in Auths, n \in Outcomes :
        Returned("GetSelfDetails", [auth |-> auth], n, GetSelfDetails(client, auth, n))

CallGetUserDetails ==
    \E auth \in Auths, id \in UserIds, hash \in AccessHashes, n \in Outcomes :
        Returned("GetUserDetails", [auth |-> auth, userId |-> id, accessHash |-> hash],
                 n, GetUserDetails(client, auth, id, hash, n))

CallGenerateFriendToken ==
    \E auth \in Auths, n \in Outcomes :
        Returned("GenerateFriendToken", [auth |-> auth], n,
                 GenerateFriendToken(client, auth, n))

CallAddFriend ==
    \E auth \in Auths, tok \in FriendTokens, id \in UserIds, n \in Outcomes :
        Returned("AddFriend", [auth |-> auth, token |-> tok, userId |-> id],
                 n, AddFriend(client, auth, tok, id, n))

CallSendFriendRequest ==
    \E auth \in Auths, id \in UserIds, hash \in AccessHashes, n \in Outcomes :
        Returned("SendFriendRequest", [auth |-> auth, userId |-> id, accessHash |-> hash],
                 n, SendFriendRequest(client, auth, id, hash, n))

CallDeclineFriendRequest ==
    \E auth \in Auths, id \in UserIds, hash \in AccessHashes, n \in Outcomes :
        Returned("DeclineFriendRequest", [auth |-> auth, userId |-> id, accessHash |-> hash],
                 n, DeclineFriendRequest(client, auth, id, hash, n))

CallGetNetworkDetails ==
    \E auth \in Auths, n \in Outcomes :
        Returned("GetNetworkDetails", [auth |-> auth], n, GetNetworkDetails(client, auth, n))

CallGetFeedQueue ==
    \E auth \in Auths, n \in Outcomes :
        Returned("GetFeedQueue", [auth |-> auth], n, GetFeedQueue(client, auth, n))

CallUploadFile ==
    \E name \in {<<"avatar.png">>}, rd \in Readers, n \in Outcomes :
        Returned("UploadFile", [filename |-> name, reader |-> rd],
                 n, UploadFile(client, name, rd, n))

\* GetFileURL returns a string and no error, and uses no transport.
CallGetFileURL ==
    \E fd \in Descriptors :
        Returned("GetFileURL", [descriptor |-> fd], NoNet,
                 Return(<<>>, GetFileURL(client, fd), NilErr))

\* json.Marshal of a FeedQueue followed by json.Unmarshal of the bytes into a
\* fresh FeedQueue: the result is the decoded value.
RoundTripFeedQueue ==
    \E feed \in FeedQueues :
        LET data == MarshalFeedQueue(feed)
            back == DecodeFeedQueue(data)
        IN  Returned("RoundTripFeedQueue", [feed |-> feed, data |-> data], NoNet,
                     Return(<<>>, back.v, IF back.ok THEN NilErr ELSE UnmarshalError(data)))

\* The caller is done with the returned values and is ready for its next call;
\* nothing of the call is kept but the client itself.
Discard ==
    /\ op # "none"
    /\ op' = "none"
    /\ args' = <<>>
    /\ net' = NoNet
    /\ sent' = <<>>
    /\ result' = NoResult
    /\ err' = NilErr
    /\ UNCHANGED <<client, others>>

Next ==
    \/ CallNewNickname
    \/ CallNewUserDescription
    \/ CallNewInterest
    \/ CallNewToken
    \/ CallNewUserAccessHash
    \/ CallNewFileAccessHash
    \/ CallNewFriendToken
    \/ CallGenerate
    \/ CallGetSelfDetails
    \/ CallGetUserDetails
    \/ CallGenerateFriendToken
    \/ CallAddFriend
    \/ CallSendFriendRequest
    \/ CallDeclineFriendRequest
    \/ CallGetNetworkDetails
    \/ CallGetFeedQueue
    \/ CallUploadFile
    \/ CallGetFileURL
    \/ RoundTripFeedQueue
    \/ Discard

Spec == Init /\ [][Next]_vars

(***************************************************************************)
(* The same caller with a client of package friendly.                      *)
(***************************************************************************)
FriendlyEndpoints ==
    {friendly_NewMeetacyClient.endpoint, friendly_NewLocalhostClient(MaxPort).endpoint,
     <<BadHost>>}

\* Content types handed to UploadFile of package friendly.
ContentTypes == {EmptyString, <<"image/png">>, <<"text/plain">>}

InitFriendly ==
    /\ client \in {friendly_NewClient(e) : e \in FriendlyEndpoints}
    /\ op = "none"
    /\ args = <<>>
    /\ net = NoNet
    /\ sent = <<>>
    /\ result = NoResult
    /\ err = NilErr
    /\ threads = <<>>
    /\ model = <<>>
    /\ msg = <<>>
    /\ calls = <<>>

FriendlyNewNickname == \E s \in InputStrings : Constructed("NewNickname", s, friendly_NewNickname(s))

FriendlyNewUserDescription ==
    \E s \in InputStrings : Constructed("NewUserDescription", s, friendly_NewUserDescription(s))

FriendlyNewInterest == \E s \in InputStrings : Constructed("NewInterest", s, friendly_NewInterest(s))

FriendlyNewToken == \E s \in InputStrings : Constructed("NewToken", s, friendly_NewToken(s))

FriendlyNewUserAccessHash ==
    \E s \in InputStrings : Constructed("NewUserAccessHash", s, friendly_NewUserAccessHash(s))

FriendlyNewFileAccessHash ==
    \E s \in InputStrings : Constructed("NewFileAccessHash", s, friendly_NewFileAccessHash(s))

FriendlyNewFriendToken == \E s \in InputStrings : Constructed("NewFriendToken", s, friendly_NewFriendToken(s))

FriendlyGenerate ==
    \E nick \in {<<"alice">>}, desc \in {<<"likes tea">>}, ints \in InterestLists,
       av \in Avatars, n \in Outcomes :
        Returned("Generate",
                 [nickname |-> nick, description |-> desc, interests |-> ints, avatar |-> av],
                 n, friendly_Generate(client, nick, desc, ints, av, n))

FriendlyGetSelfDetails ==
    \E auth \in Auths, n \in Outcomes :
        Returned("GetSelfDetails", [auth |-> auth], n, friendly_GetSelfDetails(client, auth, n))

FriendlyGetUserDetails ==
    \E auth \in Auths, id \in UserIds, hash \in AccessHashes, n \in Outcomes :
        Returned("GetUserDetails", [auth |-> auth, userId |-> id, accessHash |-> hash],
                 n, friendly_GetUserDetails(client, auth, id, hash, n))

FriendlyGenerateFriendToken ==
    \E auth \in Auths, n \in Outcomes :
        Returned("GenerateFriendToken", [auth |-> auth], n,
                 friendly_GenerateFriendToken(client, auth, n))

FriendlyAddFriend ==
    \E auth \in Auths, tok \in FriendTokens, id \in UserIds, n \in Outcomes :
        Returned("AddFriend", [auth |-> auth, token |-> tok, userId |-> id],
                 n, friendly_AddFriend(client, auth, tok, id, n))

FriendlySendFriendRequest ==
    \E auth \in Auths, id \in UserIds, hash \in AccessHashes, n \in Outcomes :
        Returned("SendFriendRequest", [auth |-> auth, userId |-> id, accessHash |-> hash],
                 n, friendly_SendFriendRequest(client, auth, id, hash, n))

FriendlyDeclineFriendRequest ==
    \E auth \in Auths, id \in UserIds, hash \in AccessHashes, n \in Outcomes :
        Returned("DeclineFriendRequest", [auth |-> auth, userId |-> id, accessHash |-> hash],
                 n, friendly_DeclineFriendRequest(client, auth, id, hash, n))

FriendlyGetNetworkDetails ==
    \E auth \in Auths, n \in Outcomes :
        Returned("GetNetworkDetails", [auth |-> auth], n, friendly_GetNetworkDetails(client, auth, n))

FriendlyGetFeedQueue ==
    \E auth \in Auths, n \in Outcomes :
        Returned("GetFeedQueue", [auth |-> auth], n, friendly_GetFeedQueue(client, auth, n))

FriendlyUploadFile ==
    \E name \in {<<"avatar.png">>}, ct \in ContentTypes, rd \in Readers, n \in Outcomes :
        Returned("UploadFile", [filename |-> name, contentType |-> ct, reader |-> rd],
                 n, friendly_UploadFile(client, name, ct, rd, n))

\* GetFileURL returns a string and no error, and uses no transport.
FriendlyGetFileURL ==
    \E fd \in Descriptors :
        Returned("GetFileURL", [descriptor |-> fd], NoNet,
                 Return(<<>>, friendly_GetFileURL(client, fd), NilErr))

NextFriendly ==
    \/ FriendlyNewNickname
    \/ FriendlyNewUserDescription
    \/ FriendlyNewInterest
    \/ FriendlyNewToken
    \/ FriendlyNewUserAccessHash
    \/ FriendlyNewFileAccessHash
    \/ FriendlyNewFriendToken
    \/ FriendlyGenerate
    \/ FriendlyGetSelfDetails
    \/ FriendlyGetUserDetails
    \/ FriendlyGenerateFriendToken
    \/ FriendlyAddFriend
    \/ FriendlySendFriendRequest
    \/ FriendlyDeclineFriendRequest
    \/ FriendlyGetNetworkDetails
    \/ FriendlyGetFeedQueue
    \/ FriendlyUploadFile
    \/ FriendlyGetFileURL
    \/ Discard

SpecFriendly == InitFriendly /\ [][NextFriendly]_vars

(***************************************************************************)
(* Concurrent callers.  Several goroutines call operations of one *Client. *)
(* A call takes two steps: the operation builds its request from the       *)
(* client and its own arguments and hands it to c.http.Do, where it        *)
(* blocks; when the transport answers, the operation turns the answer into *)
(* its return values.  The steps of different goroutines interleave.  The  *)
(* SDK has no package variable and Client has no field that a call writes. *)
(***************************************************************************)
NumThreads == 2

Threads == 1..NumThreads

IdleThread ==
    [pc |-> "idle", name |-> "none", args |-> <<>>, net |-> NoNet, sent |-> <<>>,
     result |-> NoResult, err |-> NilErr]

ConcurrentOps == {"GetSelfDetails", "GenerateFriendToken", "SendFriendRequest"}

ConcurrentArgs ==
    {[auth |-> auth, userId |-> 1, accessHash |-> Rep("u", HashSize)] : auth \in Auths}

ConcurrentOutcomes ==
    {NetFail} \cup
    {[fail |-> FALSE, resp |-> [StatusCode |-> st, Body |-> b], err |-> NilErr] :
        st \in {StatusOK}, b \in {Alice, JObj(<<Member("token", JStr(<<"abc">>))>>)}} \cup
    {[fail |-> FALSE, resp |-> [StatusCode |-> StatusUnauthorized, Body |-> EmptyBody],
      err |-> NilErr]}

\* The operation called name, run on client c with arguments a and answer n.
Invoke(name, c, a, n) ==
    CASE name = "GetSelfDetails" -> GetSelfDetails(c, a.auth, n)
      [] name = "GenerateFriendToken" -> GenerateFriendToken(c, a.auth, n)
      [] name = "SendFriendRequest" -> SendFriendRequest(c, a.auth, a.userId, a.accessHash, n)

\* A call that builds its request from the Authorization of a call that is
\* already waiting, as if the client kept the credentials in a field.
begin_sharedAuth(ths, t, c, name, a) ==
    LET waiting == {u \in DOMAIN ths : ths[u].pc = "waiting"}
        auth == IF waiting = {} THEN a.auth
                ELSE ths[CHOOSE u \in waiting : TRUE].args.auth
    IN  [ths EXCEPT ![t] =
            [pc |-> "waiting", name |-> name, args |-> a, net |-> NoNet,
             sent |-> Invoke(name, c, [a EXCEPT !.auth = auth], NetFail).sent,
             result |-> NoResult, err |-> NilErr]]

\* Goroutine t enters the operation, which runs up to c.http.Do(req): the
\* request depends on c and on the call's own arguments only.
begin(ths, t, c, name, a) ==
    [ths EXCEPT ![t] =
        [pc |-> "waiting", name |-> name, args |-> a, net |-> NoNet,
         sent |-> Invoke(name, c, a, NetFail).sent,
         result |-> NoResult, err |-> NilErr]]

\* c.http.Do returns n to goroutine t and the operation runs to its return.
finish(ths, t, c, n) ==
    LET r == Invoke(ths[t].name, c, ths[t].args, n)
    IN  [ths EXCEPT ![t] = [@ EXCEPT !.pc = "done", !.net = n,
                                     !.result = r.result, !.err = r.err]]

InitConcurrent ==
    /\ client = NewMeetacyClient
    /\ threads = [t \in Threads |-> IdleThread]
    /\ op = "none"
    /\ args = <<>>
    /\ net = NoNet
    /\ sent = <<>>
    /\ result = NoResult
    /\ err = NilErr
    /\ model = <<>>
    /\ msg = <<>>
    /\ calls = <<>>

sequential == <<op, args, net, sent, result, err, model, msg, calls>>

BeginCall(t) ==
    /\ threads[t].pc = "idle"
    /\ \E name \in ConcurrentOps, a \in ConcurrentArgs :
           threads' = begin(threads, t, client, name, a)
    /\ UNCHANGED <<client, sequential>>

FinishCall(t) ==
    /\ threads[t].pc = "waiting"
    /\ \E n \in ConcurrentOutcomes : threads' = finish(threads, t, client, n)
    /\ UNCHANGED <<client, sequential>>

\* The goroutine is done with what the call returned.
DiscardCall(t) ==
    /\ threads[t].pc = "done"
    /\ threads' = [threads EXCEPT ![t] = IdleThread]
    /\ UNCHANGED <<client, sequential>>

NextConcurrent == \E t \in Threads : BeginCall(t) \/ FinishCall(t) \/ DiscardCall(t)

SpecConcurrent == InitConcurrent /\ [][NextConcurrent]_vars

(***************************************************************************)
(* The terminal UI (src/main.go): a bubbletea program.  The runtime hands  *)
(* one message at a time to Update, shows what View renders and waits for  *)
(* the next message; a tea.Quit command ends the program.  The UI calls    *)
(* the SDK from inside Update, on the one client made in main.  Fields     *)
(* that only affect rendering (help, width, height, the styles other than  *)
(* messageStyle) are not kept.                                             *)
(***************************************************************************)
\* The key bindings of var keys: the msg.String() values each one matches.
keys ==
    [Up |-> {"k", "up"}, Down |-> {"j", "down"}, Left |-> {"h", "left"},
     Right |-> {"l", "right"}, Enter |-> {"enter"}, Back |-> {"esc"},
     Insert |-> {"i", "a"}, Normal |-> {"esc"}, NextView |-> {"tab", "n"},
     PrevView |-> {"shift+tab", "p"}, Refresh |-> {"r"}, Select |-> {" ", "x"},
     Help |-> {"?"}, Quit |-> {"q", "ctrl+c"}]

\* key.Matches(msg, binding)
Matches(key, binding) == key.str \in binding

\* A tea.KeyMsg: str is msg.String(), runes the characters it carries (none
\* for a named key such as esc or ctrl+c, several for pasted text).
KeyMsg(str, runes) == [str |-> str, runes |-> runes]

\* Text shown to the user: a format with its %s and %v arguments.
Sprintf(format, text, e) == [format |-> format, text |-> text, err |-> e]

\* The empty string as a message.
NoText == Sprintf("", <<>>, NilErr)

\* One SDK call made by Update: what was called, with which Authorization,
\* and what the call returned.
Called(name, auth, r) ==
    [name |-> name, auth |-> auth, result |-> r.result, err |-> r.err]

\* What a handler gives back: the model, the tea.Cmd and the calls it made.
Out(mm, cmd, cs) == [m |-> mm, cmd |-> cmd, calls |-> cs]

menuItems == <<"Feed", "Network", "Profile", "Generate Token", "Add Friend", "Quit">>

\* textinput.New() with the CharLimit set in initialModel: empty, not focused.
NewInput(limit) == [value |-> <<>>, focus |-> FALSE, CharLimit |-> limit]

\* The fields Update and the handlers read.  width, height and help.ShowAll
\* are written by Update and read by View alone; they are left out.
initialModel ==
    [auth |-> NilAuth,
     currentView |-> "viewRegister",
     currentMode |-> "modeInsert",
     inputs |-> <<NewInput(256), NewInput(1024), NewInput(256)>>,
     focusIdx |-> 0,
     list |-> 0,
     feedEntries |-> NilSlice,
     feedSelection |-> 0,
     networkFriends |-> NilSlice,
     profileData |-> <<>>,
     generatedToken |-> <<>>,
     message |-> NoText,
     messageStyle |-> "successStyle"]

\* textinput.Model.Update for a key message: a focused input appends the
\* runes of the key, as many as CharLimit (counted in characters) leaves
\* room for; an input without focus ignores the message.
InputUpdate(input, key) ==
    LET room == input.CharLimit - CharCount(input.value)
        take == IF room < Len(key.runes) THEN room ELSE Len(key.runes)
    IN  IF ~input.focus \/ key.runes = <<>> \/ room <= 0 THEN input
        ELSE [input EXCEPT !.value = @ \o SubSeq(key.runes, 1, take)]

\* list.Model.Update of the menu: the cursor moves within the six items.
ListUpdate(cursor, key) ==
    IF key.str \in {"j", "down"} THEN (IF cursor < Len(menuItems) - 1 THEN cursor + 1 ELSE cursor)
    ELSE IF key.str \in {"k", "up"} THEN (IF cursor > 0 THEN cursor - 1 ELSE cursor)
    ELSE cursor

updateFocus(mm) ==
    [mm EXCEPT !.inputs = [i \in DOMAIN @ |-> [@[i] EXCEPT !.focus = (i - 1 = mm.focusIdx)]]]

\* for i := range m.inputs { m.inputs[i].Blur() }
BlurAll(inputs) == [i \in DOMAIN inputs |-> [inputs[i] EXCEPT !.focus = FALSE]]

\* strings.Split(str, sep) for a string of one-character pieces.
RECURSIVE Split(_, _)
Split(str, sep) ==
    LET at == {i \in DOMAIN str : str[i] = sep}
        first == CHOOSE i \in at : \A k \in at : i <= k
    IN  IF at = {} THEN <<str>>
        ELSE <<SubSeq(str, 1, first - 1)>> \o Split(SubSeq(str, first + 1, Len(str)), sep)

\* strings.TrimSpace
TrimSpace(str) ==
    LET ink == {i \in DOMAIN str : str[i] # " "}
        lo == CHOOSE i \in ink : \A k \in ink : i <= k
        hi == CHOOSE i \in ink : \A k \in ink : k <= i
    IN  IF ink = {} THEN <<>> ELSE SubSeq(str, lo, hi)

\* strings.Join(strs, sep)
RECURSIVE Join(_, _)
Join(strs, sep) ==
    IF strs = <<>> THEN <<>>
    ELSE IF Len(strs) = 1 THEN strs[1]
    ELSE strs[1] \o sep \o Join(Tail(strs), sep)

NonEmpty(str) == str # <<>>

\* The handlers below take ns, the transport's answers to the SDK calls of one
\* Update in the order the calls are made.  Each loader is written with the
\* call's return (result, err) as the parameter r of its second half.

\* A loadFeed that logs the user out when the call fails.
feedReturned_clearAuth(mm, r) ==
    IF ~r.err.nil
    THEN Out([mm EXCEPT !.message = Sprintf("Error loading feed: %v", <<>>, r.err),
                        !.messageStyle = "errorStyle",
                        !.feedEntries = NilSlice,
                        !.auth = NilAuth],
             "nil", <<Called("GetFeedQueue", mm.auth, r)>>)
    ELSE Out([mm EXCEPT !.feedEntries = r.result.v.Entries, !.feedSelection = 0],
             "nil", <<Called("GetFeedQueue", mm.auth, r)>>)

\* loadFeed after feed, err := m.client.GetFeedQueue(m.auth).
feedReturned(mm, r) ==
    IF ~r.err.nil
    THEN Out([mm EXCEPT !.message = Sprintf("Error loading feed: %v", <<>>, r.err),
                        !.messageStyle = "errorStyle",
                        !.feedEntries = NilSlice],
             "nil", <<Called("GetFeedQueue", mm.auth, r)>>)
    ELSE Out([mm EXCEPT !.feedEntries = r.result.v.Entries, !.feedSelection = 0],
             "nil", <<Called("GetFeedQueue", mm.auth, r)>>)

\* A loadFeed without the test of m.auth.
loadFeed_unguarded(mm, c, ns) == feedReturned(mm, GetFeedQueue(c, mm.auth, ns[1]))

loadFeed(mm, c, ns) ==
    IF mm.auth.nil
    THEN Out([mm EXCEPT !.feedEntries = NilSlice], "nil", <<>>)
    ELSE feedReturned(mm, GetFeedQueue(c, mm.auth, ns[1]))

\* loadNetwork after network, err := m.client.GetNetworkDetails(m.auth).
networkReturned(mm, r) ==
    IF ~r.err.nil
    THEN Out([mm EXCEPT !.message = Sprintf("Error loading network: %v", <<>>, r.err),
                        !.messageStyle = "errorStyle",
                        !.networkFriends = NilSlice],
             "nil", <<Called("GetNetworkDetails", mm.auth, r)>>)
    ELSE Out([mm EXCEPT !.networkFriends = r.result.v.Friends],
             "nil", <<Called("GetNetworkDetails", mm.auth, r)>>)

loadNetwork(mm, c, ns) ==
    IF mm.auth.nil
    THEN Out([mm EXCEPT !.networkFriends = NilSlice], "nil", <<>>)
    ELSE networkReturned(mm, GetNetworkDetails(c, mm.auth, ns[1]))

\* loadProfile after details, err := m.client.GetSelfDetails(m.auth); rn is
\* the return of network, _ := m.client.GetNetworkDetails(m.auth), which is
\* called only when GetSelfDetails returned no error.
profileReturned(mm, r, rn) ==
    LET details == r.result.v
        friendCount == IF rn.result.nil THEN <<"0">>
                       ELSE FormatInt(Len(rn.result.v.Friends.v))
    IN  IF ~r.err.nil
        THEN Out([mm EXCEPT !.profileData = ("Error" :> Sprintf("%v", <<>>, r.err))],
                 "nil", <<Called("GetSelfDetails", mm.auth, r)>>)
        ELSE Out([mm EXCEPT !.profileData =
                     ("Nickname" :> Sprintf("%s", details.Nickname, NilErr))
                     @@ ("Description" :> Sprintf("%s", details.Description, NilErr))
                     @@ ("Interests" :>
                            Sprintf("%s", Join(details.Interests.v, <<",", " ">>), NilErr))
                     @@ ("Friends" :> Sprintf("%s", friendCount, NilErr))
                     @@ ("User ID" :> Sprintf("%d", FormatInt(details.Id), NilErr))],
                 "nil",
                 <<Called("GetSelfDetails", mm.auth, r),
                   Called("GetNetworkDetails", mm.auth, rn)>>)

loadProfile(mm, c, ns) ==
    IF mm.auth.nil
    THEN Out([mm EXCEPT !.profileData = ("Status" :> Sprintf("Not logged in", <<>>, NilErr))],
             "nil", <<>>)
    ELSE profileReturned(mm, GetSelfDetails(c, mm.auth, ns[1]),
                         GetNetworkDetails(c, mm.auth, ns[2]))

\* generateFriendToken after token, err := m.client.GenerateFriendToken(m.auth).
tokenReturned(mm, r) ==
    IF ~r.err.nil
    THEN Out([mm EXCEPT !.message = Sprintf("Failed to generate token: %v", <<>>, r.err),
                        !.messageStyle = "errorStyle"],
             "nil", <<Called("GenerateFriendToken", mm.auth, r)>>)
    ELSE Out([mm EXCEPT !.generatedToken = r.result,
                        !.message = Sprintf("Token generated successfully!", <<>>, NilErr),
                        !.messageStyle = "successStyle"],
             "nil", <<Called("GenerateFriendToken", mm.auth, r)>>)

generateFriendToken(mm, c, ns) ==
    IF mm.auth.nil
    THEN Out([mm EXCEPT !.message = Sprintf("Please register first", <<>>, NilErr),
                        !.messageStyle = "errorStyle"],
             "nil", <<>>)
    ELSE tokenReturned(mm, GenerateFriendToken(c, mm.auth, ns[1]))

views == <<"viewMenu", "viewFeed", "viewNetwork", "viewProfile">>

nextView(mm) ==
    LET at == {i \in DOMAIN views : views[i] = mm.currentView}
    IN  IF mm.auth.nil \/ at = {} THEN Out(mm, "nil", <<>>)
        ELSE Out([mm EXCEPT !.currentView = views[((CHOOSE i \in at : TRUE) % Len(views)) + 1]],
                 "nil", <<>>)

prevView(mm) ==
    LET at == {i \in DOMAIN views : views[i] = mm.currentView}
        i0 == (CHOOSE i \in at : TRUE) - 1
    IN  IF mm.auth.nil \/ at = {} THEN Out(mm, "nil", <<>>)
        ELSE Out([mm EXCEPT !.currentView = views[((i0 - 1 + Len(views)) % Len(views)) + 1]],
                 "nil", <<>>)

\* A handleFeedNavigation whose Down does not test the end of the list.
handleFeedNavigation_unbounded(mm, key) ==
    IF Matches(key, keys.Down)
    THEN Out([mm EXCEPT !.feedSelection = @ + 1], "nil", <<>>)
    ELSE IF Matches(key, keys.Up)
    THEN Out(IF mm.feedSelection > 0 THEN [mm EXCEPT !.feedSelection = @ - 1] ELSE mm,
             "nil", <<>>)
    ELSE Out(mm, "nil", <<>>)

handleFeedNavigation(mm, key) ==
    IF Matches(key, keys.Down)
    THEN Out(IF mm.feedSelection < Len(mm.feedEntries.v) - 1
             THEN [mm EXCEPT !.feedSelection = @ + 1] ELSE mm, "nil", <<>>)
    ELSE IF Matches(key, keys.Up)
    THEN Out(IF mm.feedSelection > 0 THEN [mm EXCEPT !.feedSelection = @ - 1] ELSE mm,
             "nil", <<>>)
    ELSE Out(mm, "nil", <<>>)

\* handleFeedSelect after err := m.client.SendFriendRequest(...).
requestReturned(mm, entry, r) ==
    IF ~r.err.nil
    THEN Out([mm EXCEPT !.message = Sprintf("Failed to send friend request: %v", <<>>, r.err),
                        !.messageStyle = "errorStyle"],
             "nil", <<Called("SendFriendRequest", mm.auth, r)>>)
    ELSE Out([mm EXCEPT !.message = Sprintf("Friend request sent to %s!",
                                            entry.Details.Nickname, NilErr),
                        !.messageStyle = "successStyle"],
             "nil", <<Called("SendFriendRequest", mm.auth, r)>>)

\* The entry is passed to the operators below as a parameter.
selectEntry(mm, c, ns, entry) ==
    requestReturned(mm, entry,
                    SendFriendRequest(c, mm.auth, entry.Details.Id, entry.Details.AccessHash,
                                      ns[1]))

\* m.feedEntries[m.feedSelection] panics when the index is out of range.
handleFeedSelect(mm, c, ns) ==
    IF Len(mm.feedEntries.v) = 0 THEN Out(mm, "nil", <<>>)
    ELSE IF mm.feedSelection < 0 \/ mm.feedSelection >= Len(mm.feedEntries.v)
    THEN Out(mm, "panic", <<>>)
    ELSE selectEntry(mm, c, ns, mm.feedEntries.v[mm.feedSelection + 1])

\* Each branch runs the loader and then sets the success message.
handleRefresh(mm, c, ns) ==
    LET refreshed(o, text) ==
            Out([o.m EXCEPT !.message = Sprintf(text, <<>>, NilErr),
                            !.messageStyle = "successStyle"],
                "nil", o.calls)
    IN  CASE mm.currentView = "viewFeed" -> refreshed(loadFeed(mm, c, ns), "Feed refreshed")
          [] mm.currentView = "viewNetwork" ->
                 refreshed(loadNetwork(mm, c, ns), "Network refreshed")
          [] mm.currentView = "viewProfile" ->
                 refreshed(loadProfile(mm, c, ns), "Profile refreshed")
          [] OTHER -> Out(mm, "nil", <<>>)

\* A handleRegistrationSubmit whose failure branch empties the form.
generateReturned_clearing(mm, nickname, r) ==
    IF ~r.err.nil
    THEN Out([mm EXCEPT !.message = Sprintf("Registration failed: %v", <<>>, r.err),
                        !.messageStyle = "errorStyle",
                        !.inputs = [i \in DOMAIN @ |-> [@[i] EXCEPT !.value = <<>>]]],
             "nil", <<Called("Generate", NilAuth, r)>>)
    ELSE Out([mm EXCEPT !.auth = r.result,
                        !.message = Sprintf("Registration successful! Welcome, %s!",
                                            nickname, NilErr),
                        !.messageStyle = "successStyle",
                        !.currentView = "viewMenu",
                        !.currentMode = "modeNormal",
                        !.inputs = [i \in DOMAIN @ |->
                                       [@[i] EXCEPT !.value = <<>>, !.focus = FALSE]]],
             "nil", <<Called("Generate", NilAuth, r)>>)

\* handleRegistrationSubmit after auth, err := m.client.Generate(...).
generateReturned(mm, nickname, r) ==
    IF ~r.err.nil
    THEN Out([mm EXCEPT !.message = Sprintf("Registration failed: %v", <<>>, r.err),
                        !.messageStyle = "errorStyle"],
             "nil", <<Called("Generate", NilAuth, r)>>)
    ELSE Out([mm EXCEPT !.auth = r.result,
                        !.message = Sprintf("Registration successful! Welcome, %s!",
                                            nickname, NilErr),
                        !.messageStyle = "successStyle",
                        !.currentView = "viewMenu",
                        !.currentMode = "modeNormal",
                        !.inputs = [i \in DOMAIN @ |->
                                       [@[i] EXCEPT !.value = <<>>, !.focus = FALSE]]],
             "nil", <<Called("Generate", NilAuth, r)>>)

handleRegistrationSubmit(mm, c, ns) ==
    LET rejected(text) ==
            Out([mm EXCEPT !.message = text, !.messageStyle = "errorStyle"], "nil", <<>>)
        nickname == NewNickname(mm.inputs[1].value)
        description == NewUserDescription(mm.inputs[2].value)
        interestStrs == IF mm.inputs[3].value = <<>> THEN <<>>
                        ELSE Split(mm.inputs[3].value, ",")
        trimmed == SelectSeq([i \in DOMAIN interestStrs |-> TrimSpace(interestStrs[i])],
                             NonEmpty)
        made == [i \in DOMAIN trimmed |-> NewInterest(trimmed[i])]
        bad == {i \in DOMAIN made : ~made[i].err.nil}
        firstBad == CHOOSE i \in bad : \A k \in bad : i <= k
        interests == Slice([i \in DOMAIN made |-> made[i].v])
    IN  IF mm.inputs[1].value = <<>> \/ mm.inputs[2].value = <<>>
        THEN rejected(Sprintf("Nickname and description are required", <<>>, NilErr))
        ELSE IF ~nickname.err.nil
        THEN rejected(Sprintf("Invalid nickname: %v", <<>>, nickname.err))
        ELSE IF ~description.err.nil
        THEN rejected(Sprintf("Invalid description: %v", <<>>, description.err))
        ELSE IF bad # {}
        THEN rejected(Sprintf("Invalid interest '%s': %v", trimmed[firstBad],
                              made[firstBad].err))
        ELSE generateReturned(mm, nickname.v,
                              Generate(c, nickname.v, description.v, interests,
                                       NilPtr(ZeroFileDescriptor), ns[1]))

handleEnter(mm, c, ns) ==
    LET selected == menuItems[mm.list + 1]
    IN  CASE mm.currentView = "viewMenu" ->
                 (CASE selected = "Feed" ->
                           loadFeed([mm EXCEPT !.currentView = "viewFeed"], c, ns)
                    [] selected = "Network" ->
                           loadNetwork([mm EXCEPT !.currentView = "viewNetwork"], c, ns)
                    [] selected = "Profile" ->
                           loadProfile([mm EXCEPT !.currentView = "viewProfile"], c, ns)
                    [] selected = "Generate Token" ->
                           generateFriendToken([mm EXCEPT !.currentView = "viewGenerateToken"],
                                               c, ns)
                    [] selected = "Add Friend" ->
                           Out([mm EXCEPT !.currentView = "viewAddFriend"], "nil", <<>>)
                    [] selected = "Quit" -> Out(mm, "Quit", <<>>))
          [] mm.currentView = "viewRegister" ->
                 Out([mm EXCEPT !.currentMode = "modeInsert",
                                !.inputs[mm.focusIdx + 1].focus = TRUE],
                     "nil", <<>>)
          [] mm.currentView = "viewFeed" -> handleFeedSelect(mm, c, ns)
          [] OTHER -> Out(mm, "nil", <<>>)

\* focusIdx moved by step and wrapped around the inputs.
MoveFocus(mm, step) ==
    LET to == mm.focusIdx + step
    IN  [mm EXCEPT !.focusIdx = IF to > Len(mm.inputs) - 1 THEN 0
                                ELSE IF to < 0 THEN Len(mm.inputs) - 1 ELSE to]

handleNormalMode(mm, key, c, ns) ==
    IF Matches(key, keys.Quit)
    THEN IF mm.currentView = "viewMenu" THEN Out(mm, "Quit", <<>>)
         ELSE Out([mm EXCEPT !.currentView = "viewMenu", !.message = NoText], "nil", <<>>)
    ELSE IF Matches(key, keys.Back)
    THEN IF mm.currentView = "viewRegister" /\ mm.auth.nil THEN Out(mm, "nil", <<>>)
         ELSE Out([mm EXCEPT !.currentView = "viewMenu", !.message = NoText], "nil", <<>>)
    ELSE IF Matches(key, keys.Help) THEN Out(mm, "nil", <<>>)
    ELSE IF Matches(key, keys.Insert)
    THEN Out(IF mm.currentView = "viewRegister"
             THEN [mm EXCEPT !.currentMode = "modeInsert",
                             !.inputs[mm.focusIdx + 1].focus = TRUE]
             ELSE [mm EXCEPT !.currentMode = "modeInsert"],
             "nil", <<>>)
    ELSE IF Matches(key, keys.Enter) THEN handleEnter(mm, c, ns)
    ELSE IF Matches(key, keys.NextView) THEN nextView(mm)
    ELSE IF Matches(key, keys.PrevView) THEN prevView(mm)
    ELSE IF Matches(key, keys.Refresh) THEN handleRefresh(mm, c, ns)
    ELSE CASE mm.currentView = "viewMenu" ->
                  Out([mm EXCEPT !.list = ListUpdate(@, key)], "nil", <<>>)
           [] mm.currentView = "viewFeed" -> handleFeedNavigation(mm, key)
           [] mm.currentView = "viewRegister" ->
                  Out(IF Matches(key, keys.Down) THEN MoveFocus(mm, 1)
                      ELSE IF Matches(key, keys.Up) THEN MoveFocus(mm, 0 - 1)
                      ELSE mm,
                      "nil", <<>>)
           [] OTHER -> Out(mm, "nil", <<>>)

\* A handleInsertMode that quits on ctrl+c.
handleInsertMode_quits(mm, key, c, ns) ==
    CASE key.str = "ctrl+c" -> Out(mm, "Quit", <<>>)
      [] key.str = "esc" ->
             Out([mm EXCEPT !.currentMode = "modeNormal", !.inputs = BlurAll(@)], "nil", <<>>)
      [] key.str = "enter" ->
             IF mm.currentView = "viewRegister" THEN handleRegistrationSubmit(mm, c, ns)
             ELSE Out(mm, "nil", <<>>)
      [] key.str \in {"tab", "shift+tab"} ->
             Out(updateFocus(MoveFocus(mm, IF key.str = "tab" THEN 1 ELSE 0 - 1)),
                 "nil", <<>>)
      [] OTHER ->
             Out([mm EXCEPT !.inputs = [i \in DOMAIN @ |-> InputUpdate(@[i], key)]],
                 "Batch", <<>>)

handleInsertMode(mm, key, c, ns) ==
    CASE key.str = "esc" ->
             Out([mm EXCEPT !.currentMode = "modeNormal", !.inputs = BlurAll(@)], "nil", <<>>)
      [] key.str = "enter" ->
             IF mm.currentView = "viewRegister" THEN handleRegistrationSubmit(mm, c, ns)
             ELSE Out(mm, "nil", <<>>)
      [] key.str \in {"tab", "shift+tab"} ->
             Out(updateFocus(MoveFocus(mm, IF key.str = "tab" THEN 1 ELSE 0 - 1)),
                 "nil", <<>>)
      [] OTHER ->
             Out([mm EXCEPT !.inputs = [i \in DOMAIN @ |-> InputUpdate(@[i], key)]],
                 "Batch", <<>>)

\* Update for a tea.KeyMsg.
Update(mm, key, c, ns) ==
    IF mm.currentMode = "modeInsert" THEN handleInsertMode(mm, key, c, ns)
    ELSE handleNormalMode(mm, key, c, ns)

(***************************************************************************)
(* The user and the server of the terminal UI.                             *)
(***************************************************************************)
\* Pasted text long enough to overflow every CharLimit, in two-byte characters.
LongText == Rep(EAcute, DescriptionMax \div 2 + 1)

\* Keys that put text into a focused input: one typed character and a paste.
TypedKeys == {KeyMsg("q", <<"q">>), KeyMsg("runes", LongText)}

KeyMsgs ==
    {KeyMsg(str, <<>>) : str \in {"esc", "enter", "tab", "shift+tab", "ctrl+c"}}
    \cup {KeyMsg(ch, <<ch>>) : ch \in {"i", "r", "j", "k"}}
    \cup TypedKeys

\* Every key is pressed at any time in normal mode (a paste happens in insert
\* mode only), and so is every key that is no text.  Text reaches a focused
\* input only as one of TypedKeys, while the registration form is on screen
\* and the input is still empty.
Offered(mm, key) ==
    IF mm.currentMode = "modeNormal"
    THEN key.str # "runes"
    ELSE \/ key.runes = <<>>
         \/ \A i \in DOMAIN mm.inputs : ~mm.inputs[i].focus
         \/ /\ key \in TypedKeys
            /\ mm.currentView = "viewRegister"
            /\ \A i \in DOMAIN mm.inputs :
                   mm.inputs[i].focus => mm.inputs[i].value = <<>>

Answer(st, body) == [fail |-> FALSE, resp |-> [StatusCode |-> st, Body |-> body], err |-> NilErr]

\* A user as a server with short access hashes sends it; the SDK returns what
\* the server sent whatever its length.
Brief(user) == [user EXCEPT !.AccessHash = <<"h">>, !.Avatar = NilPtr(ZeroFileDescriptor)]

\* What the server may answer to each endpoint the UI calls.
UIAnswers(name) ==
    CASE name = "Generate" ->
             {NetFail, Answer(500, TextBody(<<"internal error">>)),
              Answer(StatusOK,
                     JObj(<<Member("id", JNum(21)),
                            Member("accessHash", JStr(<<"h">>)),
                            Member("token", JStr(<<"secret">>))>>))}
      [] name = "GetFeedQueue" ->
             {Answer(StatusUnauthorized, EmptyBody),
              Answer(StatusOK,
                     MarshalFeedQueue([Entries |->
                         Slice(<<Entry(TRUE, Slice(<<Brief(Dave)>>), Brief(Carol)),
                                 Entry(FALSE, NilSlice, Brief(Dave))>>)])),
              Answer(StatusOK,
                     MarshalFeedQueue([Entries |->
                         Slice(<<Entry(FALSE, NilSlice, Brief(Erin))>>)]))}
      [] name = "GetNetworkDetails" ->
             {Answer(StatusUnauthorized, EmptyBody),
              Answer(StatusOK, JObj(<<Member("friends", JArr(<<MarshalUserDetails(Brief(Erin))>>))>>))}
      [] name = "GetSelfDetails" ->
             {NetFail, Answer(StatusOK, MarshalUserDetails(Brief(Carol)))}
      [] name = "GenerateFriendToken" ->
             {Answer(500, EmptyBody),
              Answer(StatusOK, JObj(<<Member("token", JStr(<<"friend">>))>>))}
      [] name = "SendFriendRequest" ->
             {Answer(StatusNotFound, EmptyBody), Answer(StatusOK, EmptyBody)}

\* No message handled yet.
NoMsg == [cmd |-> "nil"]

\* main: the client of the public endpoint and the initial model.
InitUI ==
    /\ client = NewMeetacyClient
    /\ model = initialModel
    /\ msg = NoMsg
    /\ calls = <<>>
    /\ op = "none"
    /\ args = <<>>
    /\ net = NoNet
    /\ sent = <<>>
    /\ result = NoResult
    /\ err = NilErr
    /\ threads = <<>>

\* The program runs until Update returns tea.Quit (or panics).
Running == msg.cmd \notin {"Quit", "panic"}

\* What Update returned becomes the program's model; the runtime runs cmd.
Deliver(o) ==
    /\ model' = o.m
    /\ msg' = [cmd |-> o.cmd]
    /\ calls' = o.calls

\* How many SDK calls one Update makes at most (loadProfile makes two).
MaxCalls == 2

\* The answers ns followed by failures, MaxCalls in all.
Padded(ns) == ns \o [i \in 1..(MaxCalls - Len(ns)) |-> NetFail]

\* What Update can return for a key message: the transport's answers are
\* drawn for the calls this Update makes, one after the other.  ns holds the
\* answers drawn so far and o is what Update returns with them.
RECURSIVE Returns(_, _, _, _)
Returns(mm, key, ns, o) ==
    IF Len(o.calls) <= Len(ns) THEN {o}
    ELSE UNION {Returns(mm, key, Append(ns, n),
                        Update(mm, key, client, Padded(Append(ns, n)))) :
                n \in UIAnswers(o.calls[Len(ns) + 1].name)}

\* The runtime delivers a key message to Update.
KeyPress ==
    /\ Running
    /\ \E key \in KeyMsgs :
           /\ Offered(model, key)
           /\ \E o \in Returns(model, key, <<>>, Update(model, key, client, Padded(<<>>))) :
                  Deliver(o)
    /\ UNCHANGED <<client, op, args, net, sent, result, err, threads>>

\* A tea.WindowSizeMsg: Update stores the size, which only View reads.
WindowSize ==
    /\ Running
    /\ msg' = [cmd |-> "nil"]
    /\ calls' = <<>>
    /\ UNCHANGED <<model, client, op, args, net, sent, result, err, threads>>

NextUI == KeyPress \/ WindowSize

SpecUI == InitUI /\ [][NextUI]_vars

(***************************************************************************)
(* Vocabulary of the properties.                                           *)
(***************************************************************************)
AuthenticatedOps ==
    {"GetSelfDetails", "GetUserDetails", "GenerateFriendToken", "AddFriend",
     "SendFriendRequest", "DeclineFriendRequest", "GetNetworkDetails", "GetFeedQueue"}

NetworkOps == AuthenticatedOps \cup {"Generate", "UploadFile"}

PointerOps ==
    {"Generate", "GetSelfDetails", "GetUserDetails", "GetNetworkDetails",
     "GetFeedQueue", "UploadFile"}

ExactConstructors == {"NewToken", "NewUserAccessHash", "NewFileAccessHash", "NewFriendToken"}

\* The call reached the server, which answered with status st.
Answered(st) == sent # <<>> /\ ~net.fail /\ net.resp.StatusCode = st

\* The call handed back no result: a nil pointer, or the empty token.
NoResultReturned ==
    CASE op \in PointerOps -> result.nil
      [] op = "GenerateFriendToken" -> result = <<>>
      [] OTHER -> result = NoResult

UnauthorizedError == [nil |-> FALSE, text |-> <<"unauthorized">>, num |-> 0, body |-> NoBody]

NotFoundError == [nil |-> FALSE, text |-> <<"user not found">>, num |-> 0, body |-> NoBody]

ExpiredError == [nil |-> FALSE, text |-> <<"friend token expired">>, num |-> 0, body |-> NoBody]

\* The generic failure of an operation on a status it does not expect.
StatusFailureTexts ==
    {<<"generate failed with status %d: %s">>, <<"get details failed: status %d">>,
     <<"get user details failed: status %d">>, <<"generate token failed: status %d">>,
     <<"add friend failed: status %d">>, <<"send request failed: status %d">>,
     <<"decline request failed: status %d">>, <<"get network failed: status %d">>,
     <<"get feed failed: status %d">>, <<"upload failed: status %d">>}

UnexpectedStatus(e, st) == ~e.nil /\ e.text \in StatusFailureTexts /\ e.num = st

(***************************************************************************)
(* C1.  Whenever the server answers 401 to an authenticated operation, the *)
(* operation fails with the Unauthorized error (not with the generic       *)
(* unexpected-status error) and returns no result, whatever the body is.   *)
(***************************************************************************)
C1_UnauthorizedOn401 ==
    (op \in AuthenticatedOps /\ Answered(401)) =>
        /\ err = UnauthorizedError
        /\ ~UnexpectedStatus(err, 401)
        /\ NoResultReturned

\* A 401 whose body would decode as a feed on a 200.
C1_Witness ==
    /\ op = "GetFeedQueue"
    /\ Answered(401)
    /\ Field(net.resp.Body, "entries").t = "arr"
    /\ err = UnauthorizedError
    /\ result.nil

(***************************************************************************)
(* C2.  On a 200 AddFriend fails with the friend-token-expired error       *)
(* whenever the type member of the JSON body is "FriendTokenExpired"; on a *)
(* 200 with a decodable body whose type is anything else, or absent, it    *)
(* succeeds.                                                               *)
(***************************************************************************)
ExpiredLiteral ==
    <<"F", "r", "i", "e", "n", "d", "T", "o", "k", "e", "n",
      "E", "x", "p", "i", "r", "e", "d">>

TypeIsExpired(body) ==
    /\ body.t = "obj"
    /\ Field(body, "type").t = "str"
    /\ Field(body, "type").s = ExpiredLiteral

\* A body that decodes into addFriendResponse: null, or an object whose type
\* is a string, null or missing.
AddFriendDecodable(body) ==
    \/ body.t = "null"
    \/ body.t = "obj" /\ Field(body, "type").t \in {"str", "null", "absent"}

C2_AddFriendExpired ==
    (op = "AddFriend" /\ Answered(200)) =>
        /\ TypeIsExpired(net.resp.Body) => err = ExpiredError
        /\ (AddFriendDecodable(net.resp.Body) /\ ~TypeIsExpired(net.resp.Body)) => err.nil

C2_Witness ==
    /\ op = "AddFriend"
    /\ Answered(200)
    /\ TypeIsExpired(net.resp.Body)
    /\ err = ExpiredError

(***************************************************************************)
(* C3.  A 404 is reported as NotFound by SendFriendRequest and             *)
(* DeclineFriendRequest and by no other operation: every other operation   *)
(* reports it as its generic unexpected-status failure.                    *)
(***************************************************************************)
C3_NotFoundOnlyForRequests ==
    (op \in NetworkOps /\ Answered(404)) =>
        IF op \in {"SendFriendRequest", "DeclineFriendRequest"}
        THEN err = NotFoundError
        ELSE err # NotFoundError /\ UnexpectedStatus(err, 404)

C3_Witness ==
    /\ op = "DeclineFriendRequest"
    /\ Answered(404)
    /\ err = NotFoundError

\* Statuses an operation maps to an error of its own.
SpeciallyHandled(name, st) ==
    \/ name \in AuthenticatedOps /\ st = 401
    \/ name \in {"SendFriendRequest", "DeclineFriendRequest"} /\ st = 404

\* The server answered with a status that is neither 200 nor specially handled.
AnsweredUnexpected ==
    /\ op \in NetworkOps
    /\ sent # <<>>
    /\ ~net.fail
    /\ net.resp.StatusCode # 200
    /\ ~SpeciallyHandled(op, net.resp.StatusCode)

(***************************************************************************)
(* C4 as claimed.  For every endpoint operation a status that is neither   *)
(* 200 nor specially handled fails with an UnexpectedStatus error that     *)
(* carries both the status code and the response body.                     *)
(***************************************************************************)
C4_StatusAndBodyCarried ==
    AnsweredUnexpected =>
        /\ UnexpectedStatus(err, net.resp.StatusCode)
        /\ err.body = net.resp.Body

(***************************************************************************)
(* C4 as amended.  For every endpoint operation a status that is neither   *)
(* 200 nor specially handled fails with an UnexpectedStatus error that     *)
(* carries the status code; the error carries the response body for        *)
(* Generate and for no other operation.                                    *)
(***************************************************************************)
C4_StatusCarried ==
    AnsweredUnexpected =>
        /\ UnexpectedStatus(err, net.resp.StatusCode)
        /\ err.body = IF op = "Generate" THEN net.resp.Body ELSE NoBody

C4_Witness ==
    /\ op = "GetSelfDetails"
    /\ Answered(500)
    /\ net.resp.Body.t = "text"
    /\ err.num = 500
    /\ err.body = NoBody

\* Operations that decode the body of a 200.
DecodingOps == NetworkOps \ {"SendFriendRequest", "DeclineFriendRequest"}

\* A body that is not JSON at all.
NotJson(body) == body.t \in {"empty", "text"}

(***************************************************************************)
(* C5.  Every invocation of a network operation is a single attempt: it    *)
(* hands at most one request to the transport, and a transport failure, a  *)
(* non-200 answer, a 200 whose body does not decode, or an expired friend  *)
(* token ends the same invocation with an error and no result, without a   *)
(* second request.                                                         *)
(***************************************************************************)
C5_SingleAttempt ==
    op \in NetworkOps =>
        /\ Len(sent) <= 1
        /\ (sent = <<>> \/ net.fail \/ net.resp.StatusCode # 200) =>
               (~err.nil /\ NoResultReturned)
        /\ (op \in DecodingOps /\ Answered(200) /\ NotJson(net.resp.Body)) =>
               (~err.nil /\ NoResultReturned)
        /\ (op = "AddFriend" /\ Answered(200) /\ TypeIsExpired(net.resp.Body)) =>
               (~err.nil /\ NoResultReturned)

C5_Witness ==
    /\ op = "GetNetworkDetails"
    /\ net.fail
    /\ Len(sent) = 1
    /\ ~err.nil
    /\ result.nil

(***************************************************************************)
(* C6.  A request carries the X-User-Id and X-Token headers if and only if *)
(* an Authorization was supplied, and then with the decimal id and the     *)
(* token of that Authorization; the access hash is never a header value;   *)
(* requests of Generate and UploadFile carry neither header.               *)
(***************************************************************************)
DigitValue(ch) ==
    CASE ch = "0" -> 0 [] ch = "1" -> 1 [] ch = "2" -> 2 [] ch = "3" -> 3 [] ch = "4" -> 4
      [] ch = "5" -> 5 [] ch = "6" -> 6 [] ch = "7" -> 7 [] ch = "8" -> 8 [] ch = "9" -> 9

RECURSIVE DecimalValue(_)
DecimalValue(s) ==
    IF s = <<>> THEN 0
    ELSE DecimalValue(SubSeq(s, 1, Len(s) - 1)) * 10 + DigitValue(s[Len(s)])

\* s is the decimal numeral of v: an optional minus sign, digits, no padding.
IsDecimalOf(s, v) ==
    LET digits == IF s # <<>> /\ s[1] = "-" THEN Tail(s) ELSE s
    IN  /\ digits # <<>>
        /\ \A i \in DOMAIN digits :
               digits[i] \in {"0", "1", "2", "3", "4", "5", "6", "7", "8", "9"}
        /\ (Len(digits) > 1 => digits[1] # "0")
        /\ v = IF s[1] = "-" THEN 0 - DecimalValue(digits) ELSE DecimalValue(digits)

AuthSupplied == op \in AuthenticatedOps /\ ~args.auth.nil

C6_AuthHeaders ==
    \A i \in DOMAIN sent :
        LET h == sent[i].header
        IN  /\ ("X-User-Id" \in DOMAIN h) <=> AuthSupplied
            /\ ("X-Token" \in DOMAIN h) <=> AuthSupplied
            /\ DOMAIN h \subseteq {"Content-Type", "X-User-Id", "X-Token"}
            /\ AuthSupplied =>
                   /\ IsDecimalOf(h["X-User-Id"], args.auth.v.Id)
                   /\ h["X-Token"] = args.auth.v.Token
                   /\ \A name \in DOMAIN h : h[name] # args.auth.v.AccessHash
            /\ op \in {"Generate", "UploadFile"} => DOMAIN h = {"Content-Type"}

C6_Witness ==
    /\ op = "AddFriend"
    /\ ~args.auth.nil
    /\ args.auth.v.Id = 0 - 42
    /\ Len(sent) = 1
    /\ sent[1].header["X-User-Id"] = <<"-", "4", "2">>
    /\ sent[1].header["X-Token"] = args.auth.v.Token

(***************************************************************************)
(* C7.  Against a 200 whose JSON body has id, accessHash and token,        *)
(* Generate returns an Authorization whose id, accessHash and token are    *)
(* those three members; on any other status, 401 included, it returns no   *)
(* Authorization and an error that holds the status and the body text.     *)
(***************************************************************************)
HasCredentials(body) ==
    /\ body.t = "obj"
    /\ Field(body, "id").t = "num"
    /\ Field(body, "accessHash").t = "str"
    /\ Field(body, "token").t = "str"

C7_Generate ==
    (op = "Generate" /\ sent # <<>> /\ ~net.fail) =>
        /\ (net.resp.StatusCode = 200 /\ HasCredentials(net.resp.Body)) =>
               /\ err.nil
               /\ ~result.nil
               /\ result.v.Id = Field(net.resp.Body, "id").n
               /\ result.v.AccessHash = Field(net.resp.Body, "accessHash").s
               /\ result.v.Token = Field(net.resp.Body, "token").s
        /\ net.resp.StatusCode # 200 =>
               /\ result.nil
               /\ ~err.nil
               /\ err.num = net.resp.StatusCode
               /\ err.body = net.resp.Body

C7_Witness ==
    /\ op = "Generate"
    /\ Answered(200)
    /\ ~result.nil
    /\ result.v.Id = 21
    /\ result.v.AccessHash = Rep("p", 256)
    /\ result.v.Token = Rep("q", 256)

\* A body that is a JSON object with a number id and a string accessHash.
HasDescriptor(j) ==
    /\ j.t = "obj"
    /\ Field(j, "id").t = "num"
    /\ Field(j, "accessHash").t = "str"

\* A body that is a UserDetails object with every member of its JSON type.
HasUserDetails(j) ==
    /\ HasDescriptor(j)
    /\ Field(j, "nickname").t = "str"
    /\ Field(j, "description").t = "str"
    /\ Field(j, "interests").t = "arr"
    /\ \A i \in DOMAIN Field(j, "interests").items : Field(j, "interests").items[i].t = "str"
    /\ HasDescriptor(Field(j, "avatar"))

\* The user details d respect the limits of the constructors, in characters.
SizedUserDetails(d) ==
    /\ CharCount(d.AccessHash) = 256
    /\ CharCount(d.Nickname) <= 256
    /\ CharCount(d.Description) <= 1024
    /\ \A i \in DOMAIN d.Interests.v : CharCount(d.Interests.v[i]) <= 64
    /\ ~d.Avatar.nil => CharCount(d.Avatar.v.AccessHash) = 256

(***************************************************************************)
(* C8 as claimed, for the values decoded from a server response.  Every    *)
(* token, user access hash, file access hash and friend token returned by  *)
(* Generate, GenerateFriendToken, UploadFile or inside UserDetails is      *)
(* exactly 256 characters long; every nickname is at most 256, every       *)
(* description at most 1024 and every interest at most 64 characters.      *)
(***************************************************************************)
C8_DecodedValuesSized ==
    /\ (op = "Generate" /\ ~result.nil) =>
           CharCount(result.v.Token) = 256 /\ CharCount(result.v.AccessHash) = 256
    /\ (op = "GenerateFriendToken" /\ err.nil) => CharCount(result) = 256
    /\ (op = "UploadFile" /\ ~result.nil) => CharCount(result.v.AccessHash) = 256
    /\ (op \in {"GetSelfDetails", "GetUserDetails"} /\ ~result.nil) =>
           SizedUserDetails(result.v)

(***************************************************************************)
(* C8 as amended.  The sizes are enforced by the constructors alone: what  *)
(* NewToken, NewUserAccessHash, NewFileAccessHash and NewFriendToken       *)
(* return without error has len 256, what NewNickname, NewUserDescription  *)
(* and NewInterest return has len at most 256, 1024 and 64 (len counting   *)
(* bytes).  A string decoded from a 200 response by Generate,              *)
(* GenerateFriendToken, UploadFile or into UserDetails is returned exactly *)
(* as the server sent it, whatever its length.                             *)
(***************************************************************************)
C8_SizedByConstructorsOnly ==
    /\ (op \in ExactConstructors /\ err.nil) => GoLen(result) = 256
    /\ (op = "NewNickname" /\ err.nil) => GoLen(result) <= 256
    /\ (op = "NewUserDescription" /\ err.nil) => GoLen(result) <= 1024
    /\ (op = "NewInterest" /\ err.nil) => GoLen(result) <= 64
    /\ (op = "Generate" /\ Answered(200) /\ HasCredentials(net.resp.Body)) =>
           /\ ~result.nil
           /\ result.v.Token = Field(net.resp.Body, "token").s
           /\ result.v.AccessHash = Field(net.resp.Body, "accessHash").s
    /\ (op = "GenerateFriendToken" /\ Answered(200) /\ net.resp.Body.t = "obj"
            /\ Field(net.resp.Body, "token").t = "str") =>
           /\ err.nil
           /\ result = Field(net.resp.Body, "token").s
    /\ (op = "UploadFile" /\ Answered(200) /\ HasDescriptor(net.resp.Body)) =>
           /\ ~result.nil
           /\ result.v.AccessHash = Field(net.resp.Body, "accessHash").s
    /\ (op \in {"GetSelfDetails", "GetUserDetails"} /\ Answered(200)
            /\ HasUserDetails(net.resp.Body)) =>
           /\ ~result.nil
           /\ result.v.AccessHash = Field(net.resp.Body, "accessHash").s
           /\ result.v.Nickname = Field(net.resp.Body, "nickname").s
           /\ result.v.Description = Field(net.resp.Body, "description").s
           /\ \A i \in DOMAIN result.v.Interests.v :
                  result.v.Interests.v[i] = Field(net.resp.Body, "interests").items[i].s
           /\ Len(result.v.Interests.v) = Len(Field(net.resp.Body, "interests").items)
           /\ result.v.Avatar.v.AccessHash =
                  Field(Field(net.resp.Body, "avatar"), "accessHash").s

\* A friend token of three characters comes back from GenerateFriendToken.
C8_Witness ==
    /\ op = "GenerateFriendToken"
    /\ Answered(200)
    /\ err.nil
    /\ CharCount(result) = 3

(***************************************************************************)
(* C9.  NewToken, NewUserAccessHash, NewFileAccessHash and NewFriendToken  *)
(* succeed if and only if the input is exactly 256 characters long, and    *)
(* then return the input unchanged; every other length fails and returns   *)
(* the empty value.                                                        *)
(***************************************************************************)
C9_ExactlyHashSizeCharacters ==
    op \in ExactConstructors =>
        IF CharCount(args.s) = 256
        THEN err.nil /\ result = args.s
        ELSE ~err.nil /\ result = <<>>

(***************************************************************************)
(* C10.  NewNickname succeeds for every string of at most 256 characters   *)
(* and returns it unchanged, and fails for every longer string;            *)
(* NewUserDescription and NewInterest do the same with 1024 and 64.        *)
(***************************************************************************)
CharacterLimit(name) ==
    CASE name = "NewNickname" -> 256
      [] name = "NewUserDescription" -> 1024
      [] name = "NewInterest" -> 64

C10_AtMostLimitCharacters ==
    op \in {"NewNickname", "NewUserDescription", "NewInterest"} =>
        IF CharCount(args.s) <= CharacterLimit(op)
        THEN err.nil /\ result = args.s
        ELSE ~err.nil /\ result = <<>>

\* The 200 body decodes into the value the operation expects.
Decodes(name, body) ==
    CASE name = "Generate" -> DecodeGenerateResponse(body).ok
      [] name \in {"GetSelfDetails", "GetUserDetails"} -> DecodeUserDetails(body).ok
      [] name = "GenerateFriendToken" -> DecodeGenerateFriendTokenResponse(body).ok
      [] name = "AddFriend" -> DecodeAddFriendResponse(body).ok
      [] name = "GetNetworkDetails" -> DecodeNetworkDetails(body).ok
      [] name = "GetFeedQueue" -> DecodeFeedQueue(body).ok
      [] name = "UploadFile" -> DecodeFileDescriptor(body).ok

\* The texts of the errors encoding/json gives.
JsonErrorTexts ==
    {"EOF", "unexpected end of JSON input",
     "invalid character looking for beginning of value",
     "json: cannot unmarshal into Go value"}

\* e is the decoder's error, bare or wrapped.
IsDecodeError(e) == ~e.nil /\ e.text # <<>> /\ e.text[Len(e.text)] \in JsonErrorTexts

\* A top-level value that is JSON but can never fill a struct.
NotAStruct(body) == body.t \in {"arr", "str", "num", "true", "false"}

(***************************************************************************)
(* C11.  For every operation that decodes a result, a 200 whose body does  *)
(* not decode into the expected shape (no JSON at all, a top-level value   *)
(* that is not an object, a member of the wrong type) fails with the       *)
(* decoder's error and returns no result, never a partly filled value.     *)
(***************************************************************************)
C11_DecodeFailure ==
    (op \in DecodingOps /\ Answered(200)) =>
        /\ (NotJson(net.resp.Body) \/ NotAStruct(net.resp.Body)) => ~Decodes(op, net.resp.Body)
        /\ ~Decodes(op, net.resp.Body) => (IsDecodeError(err) /\ NoResultReturned)

\* A user whose interests member is a number, answered to GetSelfDetails.
C11_Witness ==
    /\ op = "GetSelfDetails"
    /\ Answered(200)
    /\ Field(net.resp.Body, "interests").t = "num"
    /\ Field(net.resp.Body, "nickname").t = "str"
    /\ IsDecodeError(err)
    /\ result.nil

(***************************************************************************)
(* C12.  UploadFile fails with "upload failed: status N" on every answer   *)
(* other than 200, 401 and 404 included, and returns no descriptor; on a   *)
(* 200 whose body holds id and accessHash it returns a FileDescriptor with *)
(* exactly those two values.                                               *)
(***************************************************************************)
C12_UploadFile ==
    (op = "UploadFile" /\ sent # <<>> /\ ~net.fail) =>
        IF net.resp.StatusCode # 200
        THEN /\ err = Errorf("upload failed: status %d", net.resp.StatusCode, NoBody)
             /\ result.nil
        ELSE HasDescriptor(net.resp.Body) =>
                 /\ err.nil
                 /\ ~result.nil
                 /\ result.v = [Id |-> Field(net.resp.Body, "id").n,
                                AccessHash |-> Field(net.resp.Body, "accessHash").s]

C12_Witness ==
    /\ op = "UploadFile"
    /\ Answered(401)
    /\ err.num = 401
    /\ err # UnauthorizedError
    /\ result.nil

(***************************************************************************)
(* C19.  For each pointer-returning operation and every transport outcome, *)
(* status and body, exactly one of the returned result and the returned    *)
(* error is nil, and the result is non-nil if and only if the server       *)
(* answered 200 with a body that decodes.                                  *)
(***************************************************************************)
C19_ResultXorError ==
    op \in PointerOps =>
        /\ result.nil # err.nil
        /\ ~result.nil <=> (Answered(200) /\ Decodes(op, net.resp.Body))

\* A 200 whose body is null decodes: Generate returns a zero Authorization.
C19_Witness ==
    /\ op = "Generate"
    /\ Answered(200)
    /\ net.resp.Body.t = "null"
    /\ ~result.nil
    /\ err.nil

(***************************************************************************)
(* C13.  GetFileURL returns the client's base URL, "/files/download/", the *)
(* decimal id, "/" and the access hash, in that order and nothing else: a  *)
(* value fixed by the base URL and the descriptor.  It hands no request to *)
(* the transport, returns no error and leaves the client as it was.        *)
(***************************************************************************)
C13_GetFileURL ==
    /\ [](op = "GetFileURL" =>
            LET u == client.url
                h == args.descriptor.v.AccessHash
                mid == SubSeq(result, Len(u) + 1, Len(result) - Len(h))
            IN  /\ Len(result) >= Len(u) + Len(h) + 3
                /\ SubSeq(result, 1, Len(u)) = u
                /\ SubSeq(result, Len(result) - Len(h) + 1, Len(result)) = h
                /\ mid[1] = "/files/download/"
                /\ mid[Len(mid)] = "/"
                /\ IsDecimalOf(SubSeq(mid, 2, Len(mid) - 1), args.descriptor.v.Id)
                /\ sent = <<>>
                /\ net = NoNet
                /\ err.nil)
    /\ [][op' = "GetFileURL" => client' = client]_vars

\* The descriptor {42, "h"} under the public endpoint.
C13_Witness ==
    /\ op = "GetFileURL"
    /\ client = NewMeetacyClient
    /\ args.descriptor.v.Id = 42
    /\ result = <<"https://meetacy.app/friendly", "/files/download/", "4", "2", "/", "h">>

\* Every piece of the string is valid UTF-8.
ValidString(str) == \A i \in DOMAIN str : str[i] # InvalidByte

ValidUser(u) ==
    /\ ValidString(u.AccessHash)
    /\ ValidString(u.Nickname)
    /\ ValidString(u.Description)
    /\ \A i \in DOMAIN u.Interests.v : ValidString(u.Interests.v[i])
    /\ ValidString(u.Avatar.v.AccessHash)

\* A FeedQueue all of whose strings are valid UTF-8.
WellFormedFeed(feed) ==
    \A i \in DOMAIN feed.Entries.v :
        /\ ValidUser(feed.Entries.v[i].Details)
        /\ \A k \in DOMAIN feed.Entries.v[i].CommonFriends.v :
               ValidUser(feed.Entries.v[i].CommonFriends.v[k])

(***************************************************************************)
(* C14.  Encoding a well-formed FeedQueue to JSON and decoding the JSON    *)
(* gives an equal FeedQueue without error: entries, common friends and     *)
(* interests keep their order and length, a nil list stays nil and an      *)
(* empty one empty, and isExtendedNetwork and a nil avatar are preserved.  *)
(***************************************************************************)
C14_FeedQueueRoundTrip ==
    (op = "RoundTripFeedQueue" /\ WellFormedFeed(args.feed)) =>
        /\ err.nil
        /\ result = args.feed
        /\ Len(result.Entries.v) = Len(args.feed.Entries.v)
        /\ \A i \in DOMAIN args.feed.Entries.v :
               LET was == args.feed.Entries.v[i]
                   now == result.Entries.v[i]
               IN  /\ now.IsExtendedNetwork = was.IsExtendedNetwork
                   /\ now.CommonFriends = was.CommonFriends
                   /\ now.Details.Interests = was.Details.Interests
                   /\ now.Details.Avatar.nil = was.Details.Avatar.nil

\* Three entries, the first in the extended network with two common friends,
\* two interests and no avatar.
C14_Witness ==
    /\ op = "RoundTripFeedQueue"
    /\ Len(args.feed.Entries.v) = 3
    /\ args.feed.Entries.v[1].IsExtendedNetwork
    /\ Len(args.feed.Entries.v[1].CommonFriends.v) = 2
    /\ Len(args.feed.Entries.v[1].Details.Interests.v) = 2
    /\ args.feed.Entries.v[1].Details.Avatar.nil
    /\ Field(args.data, "entries").t = "arr"
    /\ result = args.feed

\* The request goroutine t handed to the transport carries the credentials
\* of t's own Authorization, or none when t passed none.
OwnHeaders(th) ==
    \A i \in DOMAIN th.sent :
        LET hdr == th.sent[i].header
        IN  IF th.args.auth.nil
            THEN "X-User-Id" \notin DOMAIN hdr /\ "X-Token" \notin DOMAIN hdr
            ELSE /\ "X-User-Id" \in DOMAIN hdr
                 /\ "X-Token" \in DOMAIN hdr
                 /\ IsDecimalOf(hdr["X-User-Id"], th.args.auth.v.Id)
                 /\ hdr["X-Token"] = th.args.auth.v.Token

\* What the call returned is what the same call returns when made alone with
\* the same arguments and the same answer.
OwnOutcome(th) ==
    LET alone == Invoke(th.name, NewMeetacyClient, th.args, th.net)
    IN  /\ th.sent = alone.sent
        /\ th.result = alone.result
        /\ th.err = alone.err

FailedCalls == {i \in DOMAIN calls : ~calls[i].err.nil}

\* C16: the held Authorization is set once and never mutated: once auth is
\* not nil no message changes or clears it, whatever SDK calls its handling
\* makes with it (every call is handed the held auth, which is the same
\* afterwards); and auth leaves nil only for the value a successful Generate
\* returned while that message was handled.
C16_AuthSetOnce ==
    [][/\ ~model.auth.nil =>
              /\ model'.auth = model.auth
              /\ \A i \in DOMAIN calls' : calls'[i].auth = model.auth
       /\ model.auth.nil /\ ~model'.auth.nil =>
              \E i \in DOMAIN calls' :
                  /\ calls'[i].name = "Generate"
                  /\ calls'[i].err.nil
                  /\ calls'[i].result = model'.auth]_vars

\* C16: the user is logged in and a call made with the held auth was just
\* answered 401.
C16_Witness ==
    /\ ~model.auth.nil
    /\ \E i \in DOMAIN calls :
           /\ calls[i].name = "GetFeedQueue"
           /\ calls[i].auth = model.auth
           /\ calls[i].err = Errorf("unauthorized", 0, NoBody)

\* C17: while auth is nil the current view is the registration view.
C17_StaysOnRegistration == model.auth.nil => model.currentView = "viewRegister"

\* The user sees the error e: as the error message or as the profile's
\* Error entry.
Shown(e) ==
    \/ /\ model.messageStyle = "errorStyle"
       /\ model.message.err = e
    \/ /\ "Error" \in DOMAIN model.profileData
       /\ model.profileData["Error"].err = e

\* C18: every error an SDK call returned while the last message was handled
\* is shown in the resulting state.
C18_ErrorsShown == \A i \in FailedCalls : Shown(calls[i].err)

\* C20: the feed list is empty or feedSelection indexes it, and no Update
\* has indexed outside the list.
C20_FeedSelectionInRange ==
    /\ \/ Len(model.feedEntries.v) = 0
       \/ /\ 0 <= model.feedSelection
          /\ model.feedSelection < Len(model.feedEntries.v)
    /\ msg.cmd # "panic"

\* C20: the last entry of a feed of two was just selected with Enter.
C20_Witness ==
    /\ model.currentView = "viewFeed"
    /\ Len(model.feedEntries.v) = 2
    /\ model.feedSelection = 1
    /\ calls # <<>>
    /\ calls[1].name = "SendFriendRequest"

\* C21: no authenticated SDK operation is called with a nil Authorization:
\* every call made while a message was handled, other than Generate, was
\* handed an auth that is not nil.
C21_NoNilAuthCalls ==
    \A i \in DOMAIN calls :
        /\ calls[i].name \in AuthenticatedOps \cup {"Generate"}
        /\ calls[i].name \in AuthenticatedOps => ~calls[i].auth.nil

\* C21: Enter on the menu's Profile item was handled with auth nil: the
\* profile says so and no call was made.
C21_Witness ==
    /\ model.auth.nil
    /\ model.currentView = "viewProfile"
    /\ "Status" \in DOMAIN model.profileData
    /\ calls = <<>>

\* The registration form is on screen in insert mode: Enter submits it.
Submitting(mm) == mm.currentView = "viewRegister" /\ mm.currentMode = "modeInsert"

\* The form of mm cannot be submitted: nickname or description is empty, or
\* a validator rejects a field (an interest is a trimmed, non-empty piece of
\* the third input between commas).
Rejects(mm) ==
    LET pieces == IF mm.inputs[3].value = <<>> THEN <<>>
                  ELSE Split(mm.inputs[3].value, ",")
    IN  \/ mm.inputs[1].value = <<>>
        \/ mm.inputs[2].value = <<>>
        \/ ~NewNickname(mm.inputs[1].value).err.nil
        \/ ~NewUserDescription(mm.inputs[2].value).err.nil
        \/ \E i \in DOMAIN pieces :
               /\ TrimSpace(pieces[i]) # <<>>
               /\ ~NewInterest(TrimSpace(pieces[i])).err.nil

\* The calls cs hold a Generate that returned no error.
Registered(cs) ==
    \E i \in DOMAIN cs : cs[i].name = "Generate" /\ cs[i].err.nil

\* What a submit of the form of mm may return, o being what Update returned.
SubmitOutcome(mm, o) ==
    /\ o.cmd = "nil"
    /\ Len(o.calls) <= 1
    /\ \A i \in DOMAIN o.calls : o.calls[i].name = "Generate"
    /\ Rejects(mm) => o.calls = <<>>
    /\ ~Rejects(mm) => o.calls # <<>>
    /\ ~Registered(o.calls) =>
           /\ o.m = [mm EXCEPT !.message = o.m.message,
                               !.messageStyle = o.m.messageStyle]
           /\ o.m.messageStyle = "errorStyle"
           /\ o.m.auth.nil
           /\ Submitting(o.m)
    /\ Registered(o.calls) =>
           /\ o.m.auth = o.calls[1].result
           /\ ~o.m.auth.nil
           /\ o.m.currentView = "viewMenu"
           /\ o.m.currentMode = "modeNormal"
           /\ \A i \in DOMAIN o.m.inputs : o.m.inputs[i].value = <<>>

\* C22: whenever the registration form is on screen in insert mode, Enter
\* with any answer of the server to Generate does this: a submit that fails
\* leaves auth nil, the view, the mode and the three inputs as they were and
\* changes only the message (text and style); with an empty nickname or
\* description or a field a validator rejects Generate is not called; a
\* Generate that succeeds sets auth to what it returned, switches to the
\* menu in normal mode and empties the inputs.  And no step of the program
\* sets auth or empties a form that held text without such a Generate.
C22_SubmitOutcomes ==
    /\ [](Submitting(model) =>
              \A n \in UIAnswers("Generate") :
                  SubmitOutcome(model,
                                Update(model, KeyMsg("enter", <<>>), client, Padded(<<n>>))))
    /\ [][(\/ model.auth.nil /\ ~model'.auth.nil
           \/ /\ \E i \in DOMAIN model.inputs : model.inputs[i].value # <<>>
              /\ \A i \in DOMAIN model'.inputs : model'.inputs[i].value = <<>>)
              => Submitting(model) /\ Registered(calls')]_vars

\* C22: a submit of a filled form has just failed in Generate: auth is nil,
\* the form is still on screen in insert mode with its text.
C22_Witness ==
    /\ calls # <<>>
    /\ calls[1].name = "Generate"
    /\ ~calls[1].err.nil
    /\ model.auth.nil
    /\ Submitting(model)
    /\ model.inputs[1].value # <<>>
    /\ model.inputs[2].value # <<>>
    /\ model.messageStyle = "errorStyle"

\* The key quits the program from the state mm: the quit key, or Enter on
\* the Quit item, in the menu view in normal mode.
QuitsFrom(mm, key) ==
    /\ mm.currentMode = "modeNormal"
    /\ mm.currentView = "viewMenu"
    /\ \/ Matches(key, keys.Quit)
       \/ Matches(key, keys.Enter) /\ menuItems[mm.list + 1] = "Quit"

\* The keys the user presses in the model and every other key of a binding.
BoundKeys ==
    KeyMsgs
    \cup {KeyMsg(str, <<>>) : str \in {"up", "down", "left", "right"}}
    \cup {KeyMsg(ch, <<ch>>) : ch \in {"a", "h", "l", "n", "p", "x", " ", "?"}}

\* What the key does in mm as far as quitting and the view go, o being what
\* Update returned when every SDK call failed.
KeyOutcome(mm, key, o) ==
    /\ o.cmd = "Quit" <=> QuitsFrom(mm, key)
    /\ o.cmd = "Quit" => o.m = mm
    /\ mm.currentMode = "modeInsert" => o.m.currentView = mm.currentView
    /\ (/\ mm.currentMode = "modeNormal"
        /\ mm.currentView # "viewMenu"
        /\ Matches(key, keys.Quit)) =>
           /\ o.cmd = "nil"
           /\ o.calls = <<>>
           /\ o.m.currentView = "viewMenu"
           /\ o.m.currentMode = "modeNormal"

\* C23: in every reachable state, every key (q and ctrl+c among them) makes
\* Update return the quit command exactly when the state is the menu view in
\* normal mode and the key is the quit key or Enter on the Quit item; in
\* insert mode no key changes the view when the submit fails; in normal
\* mode the quit key in any other view switches to the menu and does not
\* quit.  And of the steps the program takes, whatever the server answers,
\* only those from the menu in normal mode quit, and a step from insert mode
\* never quits and changes the view only by a successful registration.
C23_QuitOnlyFromMenu ==
    /\ [](\A key \in BoundKeys :
              KeyOutcome(model, key, Update(model, key, client, Padded(<<>>))))
    /\ [][/\ msg'.cmd = "Quit" =>
                  model.currentView = "viewMenu" /\ model.currentMode = "modeNormal"
          /\ model.currentMode = "modeInsert" =>
                  /\ msg'.cmd # "Quit"
                  /\ model'.currentView # model.currentView =>
                         /\ Submitting(model)
                         /\ Registered(calls')
                         /\ model'.currentView = "viewMenu"]_vars

\* C23: the program has quit, from the menu view in normal mode with the
\* Quit item selected.
C23_Witness ==
    /\ msg.cmd = "Quit"
    /\ model.currentView = "viewMenu"
    /\ model.currentMode = "modeNormal"
    /\ menuItems[model.list + 1] = "Quit"

(***************************************************************************)
(* The two copies of the SDK.                                              *)
(***************************************************************************)
\* The client of package api with the fields of the friendly client c.
ApiClient(c) == [url |-> c.endpoint, http |-> c.httpClient]

\* What the function of package api called name returns for the arguments
\* a when the transport answers n.
ApiReturn(name, c, a, n) ==
    LET made(r) == Return(<<>>, r.v, r.err)
    IN  CASE name = "NewNickname" -> made(NewNickname(a.s))
          [] name = "NewUserDescription" -> made(NewUserDescription(a.s))
          [] name = "NewInterest" -> made(NewInterest(a.s))
          [] name = "NewToken" -> made(NewToken(a.s))
          [] name = "NewUserAccessHash" -> made(NewUserAccessHash(a.s))
          [] name = "NewFileAccessHash" -> made(NewFileAccessHash(a.s))
          [] name = "NewFriendToken" -> made(NewFriendToken(a.s))
          [] name = "Generate" ->
                 Generate(c, a.nickname, a.description, a.interests, a.avatar, n)
          [] name = "GetSelfDetails" -> GetSelfDetails(c, a.auth, n)
          [] name = "GetUserDetails" -> GetUserDetails(c, a.auth, a.userId, a.accessHash, n)
          [] name = "GenerateFriendToken" -> GenerateFriendToken(c, a.auth, n)
          [] name = "AddFriend" -> AddFriend(c, a.auth, a.token, a.userId, n)
          [] name = "SendFriendRequest" ->
                 SendFriendRequest(c, a.auth, a.userId, a.accessHash, n)
          [] name = "DeclineFriendRequest" ->
                 DeclineFriendRequest(c, a.auth, a.userId, a.accessHash, n)
          [] name = "GetNetworkDetails" -> GetNetworkDetails(c, a.auth, n)
          [] name = "GetFeedQueue" -> GetFeedQueue(c, a.auth, n)
          [] name = "UploadFile" -> UploadFile(c, a.filename, a.reader, n)
          [] name = "GetFileURL" -> Return(<<>>, GetFileURL(c, a.descriptor), NilErr)

\* C24: package friendly and package api are observationally equivalent:
\* whatever function of package friendly the caller has just called, the
\* function of that name in package api, given a client of the same
\* endpoint, the same arguments (UploadFile's contentType left out) and the
\* same answer of the transport, issues the same requests (method, URL,
\* headers, body) and returns the same result and the same error; and the
\* constructors of the two clients build clients of the same endpoint and
\* timeout.
C24_CopiesEquivalent ==
    /\ ApiClient(friendly_NewMeetacyClient) = NewMeetacyClient
    /\ ApiClient(friendly_NewLocalhostClient(MaxPort)) = NewLocalhostClient(MaxPort)
    /\ op # "none" =>
           ApiReturn(op, ApiClient(client), args, net) = Return(sent, result, err)

\* C24: UploadFile of package friendly was called with a content type, sent
\* its multipart request and returned the descriptor the server answered.
C24_Witness ==
    /\ op = "UploadFile"
    /\ args.contentType = <<"image/png">>
    /\ sent # <<>>
    /\ sent[1].header["Content-Type"] # args.contentType
    /\ ~result.nil
    /\ err.nil

====
